---- MODULE Spec2Model ----
(***************************************************************************)
(* Central server of the spot optimizer (src/Server-backend-2.py).         *)
(*                                                                         *)
(* The state is the content of the database tables the handlers read and   *)
(* write, the loaded risk model, the server clock (NOW()/utcnow(), in      *)
(* whole hours), and the request being answered with its response.         *)
(* Every action is one HTTP handler or scheduled job, run to completion.   *)
(* Prices are integers in price units of a tenth of 10^-6, the resolution   *)
(* the decide response is rounded to; ratios and percentages are integers  *)
(* in percent, risk scores are integers in hundredths.                     *)
(***************************************************************************)
EXTENDS Integers, Sequences, FiniteSets, TLC

VARIABLES
    clock,                    \* NOW() / datetime.utcnow(), hours
    ticks,                    \* number of clock advances so far
    agents,                   \* table agents
    agent_configs,            \* table agent_configs
    instances,                \* table instances
    total_savings,            \* column clients.total_savings
    switch_events,            \* table switch_events
    pending_switch_commands,  \* table pending_switch_commands
    risk_scores,              \* table risk_scores
    model_manager,            \* the ModelManager singleton
    ondemand_price_snapshots, \* table ondemand_price_snapshots
    registering,              \* the register requests being handled
    client_savings_monthly,   \* table written by calculate_monthly_savings
    held,                     \* connections taken from connection_pool
    frames,                   \* call stack of the query being executed
    store_up,                 \* whether the MySQL server answers
    inbox,                    \* commands each agent has been handed
    req,                      \* the request being answered
    resp                      \* the response returned for req

vars == <<clock, ticks, agents, agent_configs, instances, total_savings,
          switch_events, pending_switch_commands, risk_scores,
          model_manager, ondemand_price_snapshots, registering,
          client_savings_monthly, held, frames, store_up, inbox, req, resp>>

\* The store's pool and server, the running query and the agents' inboxes.
others == <<client_savings_monthly, held, frames, store_up, inbox>>

db == <<agents, agent_configs, instances, total_savings, switch_events,
        pending_switch_commands, risk_scores>>

----------------------------------------------------------------------------
(* Bounds of the model *)

MaxTicks == 1
MaxCommands == 2
MaxEvents == 2
MaxDecisions == 1
MaxDeliveries == 3
MaxRegistrations == 2
MaxPriceReports == 2
MaxEvaluations == 2

\* DB_POOL_SIZE, which the environment sets
PoolSize == 2

\* The interpreter's recursion limit, counted in frames of execute_query and
\* log_system_event
StackLimit == 4

(* Program constants *)

IntervalDays == 7
SavingsFactor == 24
RetentionDays == 90
SnapshotRetentionDays == 30

\* Price units in 10^-6, the last digit round(expected_savings, 6) keeps.
MicroUnits == 10

WeekHours == IntervalDays * 24
RetentionHours == RetentionDays * 24
SnapshotRetentionHours == SnapshotRetentionDays * 24

\* baseline_price = ... else 0.1, in price units.
DefaultBaseline == 100000 * MicroUnits

----------------------------------------------------------------------------
(* Value spaces *)

\* NULL in a text column or an absent text field of a request.
NULL == "NULL"

\* A nullable number (a timestamp or a price): None, or Some(v).
None == << >>
Some(v) == <<v>>

Clients == {"c1", "c2"}
Agents == {"a1", "a2"}
Instances == {"i1", "i2", "i3"}
Pools == {"p1", "p2"}

\* The worker threads that handle register requests.
Threads == {"t1", "t2"}

\* A thread that is handling no register request.
NotRegistering == [pc |-> "idle"]

\* No register request has been received.
NoRegistrations == [count |-> 0, calls |-> [t \in Threads |-> NotRegistering]]

\* No request has been answered since the clock last moved.
Idle == [op |-> "idle"]

Ok(body) == [status |-> 200, body |-> body]
Err(code) == [status |-> code, body |-> [error |-> TRUE]]

\* jsonify({'success': True})
Success == Ok([success |-> TRUE])

----------------------------------------------------------------------------
(* Sequence helpers *)

Range(s) == {s[k] : k \in DOMAIN s}

----------------------------------------------------------------------------
(* The clock *)

Tick(d) ==
    /\ ticks < MaxTicks
    /\ clock' = clock + d
    /\ ticks' = ticks + 1
    /\ req' = Idle
    /\ resp' = Idle
    /\ UNCHANGED <<db, model_manager,
                   ondemand_price_snapshots, registering, others>>

----------------------------------------------------------------------------
(* Command queue *)

\* The row of pending_switch_commands written by force_instance_switch.
NewCommand(id, agent_id, instance_id, target_mode, target_pool_id, now) ==
    [id |-> id, agent_id |-> agent_id, instance_id |-> instance_id,
     target_mode |-> target_mode, target_pool_id |-> target_pool_id,
     created_at |-> now, executed_at |-> None]

\* ForceSwitchSchema: target is required and one of 'ondemand', 'pool'.
ValidForceSwitch(target) == target \in {"ondemand", "pool"}

\* Mutant: a new override cancels the pending overrides of the same instance.
InsertCommandSuperseding(cmds, row) ==
    Append([k \in DOMAIN cmds |->
               IF cmds[k].instance_id = row.instance_id
                  /\ cmds[k].executed_at = None
               THEN [cmds[k] EXCEPT !.executed_at = Some(row.created_at)]
               ELSE cmds[k]],
           row)

\* INSERT INTO pending_switch_commands (...) VALUES (...)
InsertCommand(cmds, row) == Append(cmds, row)

\* POST /api/client/instances/<instance_id>/force-switch
ForceInstanceSwitch(instance_id, target, pool_id) ==
    /\ req' = [op |-> "force_switch", instance_id |-> instance_id,
               target |-> target, pool_id |-> pool_id]
    /\ IF ~ValidForceSwitch(target)
       THEN /\ resp' = Err(400)
            /\ UNCHANGED pending_switch_commands
       ELSE IF instance_id \notin DOMAIN instances
                  \/ instances[instance_id].agent_id = NULL
       THEN /\ resp' = Err(404)
            /\ UNCHANGED pending_switch_commands
       ELSE /\ Len(pending_switch_commands) < MaxCommands
            /\ pending_switch_commands' =
                  InsertCommand(pending_switch_commands,
                         NewCommand(Len(pending_switch_commands) + 1,
                                    instances[instance_id].agent_id,
                                    instance_id, target,
                                    IF target = "pool" THEN pool_id ELSE NULL,
                                    clock))
            /\ resp' = Success
    /\ UNCHANGED <<clock, ticks, agents, agent_configs, instances,
                   total_savings, switch_events, risk_scores, model_manager,
                   ondemand_price_snapshots, registering, others>>

\* WHERE agent_id = %s AND executed_at IS NULL
PendingIds(cmds, agent_id) ==
    {k \in DOMAIN cmds : cmds[k].agent_id = agent_id
                         /\ cmds[k].executed_at = None}

\* ORDER BY created_at ASC: every order of the selected rows in which
\* created_at never decreases; rows with equal created_at come in any order.
OrderedByCreatedAt(cmds, ids) ==
    {s \in [1..Cardinality(ids) -> ids] :
        /\ \A j, k \in DOMAIN s : j # k => s[j] # s[k]
        /\ \A j, k \in DOMAIN s :
              j < k => cmds[s[j]].created_at <= cmds[s[k]].created_at}

\* The JSON object returned for one row.
CommandJson(cmd) ==
    [id |-> cmd.id, instance_id |-> cmd.instance_id,
     target_mode |-> cmd.target_mode, target_pool_id |-> cmd.target_pool_id,
     created_at |-> cmd.created_at]

\* get_pending_commands: the query and the response.
ListPending(agent_id) ==
    /\ req' = [op |-> "pending_commands", agent_id |-> agent_id]
    /\ \E s \in OrderedByCreatedAt(pending_switch_commands,
                                   PendingIds(pending_switch_commands, agent_id)) :
          resp' = Ok([commands |->
                         [k \in DOMAIN s |->
                             CommandJson(pending_switch_commands[s[k]])]])

\* GET /api/agents/<agent_id>/pending-commands
GetPendingCommands(agent_id) ==
    /\ ListPending(agent_id)
    /\ UNCHANGED <<clock, ticks, db, model_manager,
                   ondemand_price_snapshots, registering, others>>

\* Mutant: the UPDATE without "AND agent_id = %s".
MarkExecutedAnyAgent(cmds, command_id, agent_id, now) ==
    [k \in DOMAIN cmds |->
        IF cmds[k].id = command_id
        THEN [cmds[k] EXCEPT !.executed_at = Some(now)]
        ELSE cmds[k]]

\* Mutant: the two parameters of the UPDATE in the wrong order, agent id
\* for the row id and row id for the agent id, which matches no row.
MarkExecutedSwapped(cmds, command_id, agent_id, now) == cmds

\* UPDATE pending_switch_commands SET executed_at = NOW()
\* WHERE id = %s AND agent_id = %s
MarkExecuted(cmds, command_id, agent_id, now) ==
    [k \in DOMAIN cmds |->
        IF cmds[k].id = command_id /\ cmds[k].agent_id = agent_id
        THEN [cmds[k] EXCEPT !.executed_at = Some(now)]
        ELSE cmds[k]]

\* mark_command_executed: the UPDATE and the response.
Acknowledge(agent_id, command_id) ==
    /\ req' = [op |-> "mark_command_executed", agent_id |-> agent_id,
               command_id |-> command_id]
    /\ pending_switch_commands' =
          MarkExecuted(pending_switch_commands, command_id, agent_id, clock)
    /\ resp' = Success

\* POST /api/agents/<agent_id>/mark-command-executed
MarkCommandExecuted(agent_id, command_id) ==
    /\ Acknowledge(agent_id, command_id)
    /\ UNCHANGED <<clock, ticks, agents, agent_configs, instances,
                   total_savings, switch_events, risk_scores, model_manager,
                   ondemand_price_snapshots, registering, others>>

----------------------------------------------------------------------------
(* The agent's side of the queue: it polls, keeps the commands a poll      *)
(* hands it, and acknowledges each of them.                                *)

\* The ids of the commands a poll returned.
Handed(r) == {r.body.commands[k].id : k \in DOMAIN r.body.commands}

\* The agent polls and keeps what the response lists.
AgentPolls(agent_id) ==
    /\ ListPending(agent_id)
    /\ inbox' = [inbox EXCEPT ![agent_id] = @ \cup Handed(resp')]
    /\ UNCHANGED <<clock, ticks, db, model_manager, ondemand_price_snapshots,
                   registering, client_savings_monthly, held, frames,
                   store_up>>

\* The agent acknowledges a command it was handed.
AgentAcknowledges(agent_id, command_id) ==
    /\ command_id \in inbox[agent_id]
    /\ Acknowledge(agent_id, command_id)
    /\ inbox' = [inbox EXCEPT ![agent_id] = @ \ {command_id}]
    /\ UNCHANGED <<clock, ticks, agents, agent_configs, instances,
                   total_savings, switch_events, risk_scores, model_manager,
                   ondemand_price_snapshots, registering,
                   client_savings_monthly, held, frames, store_up>>

----------------------------------------------------------------------------
(* Switch ledger *)

\* prices['old_spot'] - prices.get('new_spot', prices['on_demand'])
SavingsImpact(prices) ==
    prices.old_spot - (IF prices.new_spot # None THEN prices.new_spot[1]
                       ELSE prices.on_demand)

\* prices.get('new_spot', 0)
NewSpotOrZero(prices) ==
    IF prices.new_spot # None THEN prices.new_spot[1] ELSE 0

\* The row of switch_events written by switch_report; id is the
\* auto-increment key.
NewSwitchEvent(id, client_id, agent_id, old_inst, new_inst, prices, ts) ==
    [id |-> id, client_id |-> client_id, instance_id |-> new_inst.instance_id,
     agent_id |-> agent_id,
     from_mode |-> old_inst.mode, to_mode |-> new_inst.mode,
     from_pool_id |-> old_inst.pool_id, to_pool_id |-> new_inst.pool_id,
     on_demand_price |-> prices.on_demand, old_spot_price |-> prices.old_spot,
     new_spot_price |-> NewSpotOrZero(prices),
     savings_impact |-> SavingsImpact(prices),
     old_instance_id |-> old_inst.instance_id,
     new_instance_id |-> new_inst.instance_id,
     timestamp |-> ts]

\* UPDATE instances SET is_active = FALSE WHERE id = %s AND client_id = %s
DeactivateOld(insts, old_id, client_id) ==
    [i \in DOMAIN insts |->
        IF i = old_id /\ insts[i].client_id = client_id
        THEN [insts[i] EXCEPT !.is_active = FALSE]
        ELSE insts[i]]

\* Mutant: INSERT IGNORE, an existing row is left as it is.
InsertNewIfAbsent(insts, new_inst, client_id, agent_id, prices, ts) ==
    [i \in DOMAIN insts \cup {new_inst.instance_id} |->
        IF i \in DOMAIN insts THEN insts[i]
        ELSE [client_id |-> client_id, agent_id |-> agent_id,
              current_mode |-> new_inst.mode,
              current_pool_id |-> new_inst.pool_id,
              spot_price |-> NewSpotOrZero(prices), is_active |-> TRUE,
              last_switch_at |-> Some(ts), baseline_ondemand_price |-> None,
              ondemand_price |-> None]]

\* INSERT INTO instances ... ON DUPLICATE KEY UPDATE current_mode,
\* current_pool_id, spot_price, is_active = TRUE, last_switch_at
UpsertNew(insts, new_inst, client_id, agent_id, prices, ts) ==
    [i \in DOMAIN insts \cup {new_inst.instance_id} |->
        IF i # new_inst.instance_id THEN insts[i]
        ELSE IF i \notin DOMAIN insts
        THEN [client_id |-> client_id, agent_id |-> agent_id,
              current_mode |-> new_inst.mode,
              current_pool_id |-> new_inst.pool_id,
              spot_price |-> NewSpotOrZero(prices), is_active |-> TRUE,
              last_switch_at |-> Some(ts), baseline_ondemand_price |-> None,
              ondemand_price |-> None]
        ELSE [insts[i] EXCEPT !.current_mode = new_inst.mode,
                              !.current_pool_id = new_inst.pool_id,
                              !.spot_price = NewSpotOrZero(prices),
                              !.is_active = TRUE,
                              !.last_switch_at = Some(ts)]]

\* Mutant: the impact added whatever its sign.
AddSavingsSigned(savings, client_id, impact) ==
    [savings EXCEPT ![client_id] = @ + impact * SavingsFactor]

\* if savings_impact > 0: total_savings = total_savings + savings_impact * 24
AddSavings(savings, client_id, impact) ==
    IF impact > 0
    THEN [savings EXCEPT ![client_id] = @ + impact * SavingsFactor]
    ELSE savings

\* The statements of switch_report, in the order in which they are executed
\* and committed, one transaction each.
Statements == <<"insert_event", "deactivate_old", "upsert_new", "add_savings">>

\* The store answers every statement of the request.
NoFailure == "none"

\* The statements committed before the one at which the store fails; all of
\* them without a failure, and also when the failing statement is the
\* UPDATE of clients and the request does not execute it.
Committed(failing, prices) ==
    IF failing = NoFailure
       \/ (failing = "add_savings" /\ ~(SavingsImpact(prices) > 0))
    THEN Range(Statements)
    ELSE {Statements[k] : k \in {j \in DOMAIN Statements :
                                    \A i \in 1..j : Statements[i] # failing}}

\* switch_report: each execute_query commits on its own; a statement that
\* raises ends the handler with 500 and leaves the earlier ones committed.
\* At most bound events are recorded.
RecordSwitch(bound, failing, client_id, agent_id, old_inst, new_inst, prices, ts) ==
    LET done == Committed(failing, prices)
        deactivated == IF "deactivate_old" \in done
                       THEN DeactivateOld(instances, old_inst.instance_id,
                                          client_id)
                       ELSE instances
    IN  /\ Len(switch_events) < bound
        /\ req' = [op |-> "switch_report", client_id |-> client_id,
                   agent_id |-> agent_id, old_instance |-> old_inst,
                   new_instance |-> new_inst, prices |-> prices,
                   traffic_switched_at |-> ts]
        /\ switch_events' =
              IF "insert_event" \in done
              THEN Append(switch_events,
                          NewSwitchEvent(Len(switch_events) + 1, client_id,
                                         agent_id, old_inst, new_inst,
                                         prices, ts))
              ELSE switch_events
        /\ instances' =
              IF "upsert_new" \in done
              THEN UpsertNew(deactivated, new_inst, client_id, agent_id,
                             prices, ts)
              ELSE deactivated
        /\ total_savings' =
              IF "add_savings" \in done
              THEN AddSavings(total_savings, client_id, SavingsImpact(prices))
              ELSE total_savings
        /\ resp' = IF done = Range(Statements) THEN Success ELSE Err(500)
        /\ UNCHANGED <<clock, ticks, agents, agent_configs,
                       pending_switch_commands, risk_scores, model_manager,
                       ondemand_price_snapshots, registering, others>>

\* POST /api/agents/<agent_id>/switch-report, answered by a working store.
SwitchReport(client_id, agent_id, old_inst, new_inst, prices, ts) ==
    RecordSwitch(MaxEvents, NoFailure, client_id, agent_id, old_inst,
                 new_inst, prices, ts)

----------------------------------------------------------------------------
(* Operator settings *)

\* POST /api/client/agents/<agent_id>/toggle-enabled
ToggleAgent(agent_id, enabled) ==
    /\ req' = [op |-> "toggle_enabled", agent_id |-> agent_id,
               enabled |-> enabled]
    /\ agents' = [a \in DOMAIN agents |->
                     IF a = agent_id
                     THEN [agents[a] EXCEPT !.enabled = enabled]
                     ELSE agents[a]]
    /\ resp' = Success
    /\ UNCHANGED <<clock, ticks, agent_configs, instances, total_savings,
                   switch_events, pending_switch_commands, risk_scores,
                   model_manager,
                   ondemand_price_snapshots, registering, others>>

\* POST /api/client/agents/<agent_id>/settings with auto_switch_enabled
UpdateAgentSettings(agent_id, auto_switch_enabled) ==
    /\ req' = [op |-> "settings", agent_id |-> agent_id,
               auto_switch_enabled |-> auto_switch_enabled]
    /\ agents' = [a \in DOMAIN agents |->
                     IF a = agent_id
                     THEN [agents[a] EXCEPT
                              !.auto_switch_enabled = auto_switch_enabled]
                     ELSE agents[a]]
    /\ resp' = Success
    /\ UNCHANGED <<clock, ticks, agent_configs, instances, total_savings,
                   switch_events, pending_switch_commands, risk_scores,
                   model_manager,
                   ondemand_price_snapshots, registering, others>>

----------------------------------------------------------------------------
(* Scheduled maintenance *)

\* DELETE FROM risk_scores WHERE created_at < DATE_SUB(NOW(), INTERVAL 90 DAY)
DeleteOldRiskScores(rows, now) ==
    SelectSeq(rows, LAMBDA r : ~(r.created_at < now - RetentionHours))

\* DELETE FROM ondemand_price_snapshots
\* WHERE captured_at < DATE_SUB(NOW(), INTERVAL 30 DAY)
DeleteOldSnapshots(rows, now) ==
    SelectSeq(rows, LAMBDA r : ~(r.captured_at < now - SnapshotRetentionHours))

\* Mutant: the job prunes the switch events older than 90 days as well.
CleanupOldDataJobPruningEvents ==
    /\ req' = [op |-> "cleanup_old_data_job"]
    /\ ondemand_price_snapshots' =
          DeleteOldSnapshots(ondemand_price_snapshots, clock)
    /\ risk_scores' = DeleteOldRiskScores(risk_scores, clock)
    /\ switch_events' =
          SelectSeq(switch_events,
                    LAMBDA e : ~(e.timestamp < clock - RetentionHours))
    /\ resp' = Idle
    /\ UNCHANGED <<clock, ticks, agents, agent_configs, instances,
                   total_savings, pending_switch_commands, model_manager,
                   registering, others>>

\* cleanup_old_data_job
CleanupOldDataJob ==
    /\ req' = [op |-> "cleanup_old_data_job"]
    /\ ondemand_price_snapshots' =
          DeleteOldSnapshots(ondemand_price_snapshots, clock)
    /\ risk_scores' = DeleteOldRiskScores(risk_scores, clock)
    /\ resp' = Idle
    /\ UNCHANGED <<clock, ticks, agents, agent_configs, instances,
                   total_savings, switch_events, pending_switch_commands,
                   model_manager,
                   registering, others>>

----------------------------------------------------------------------------
(* Risk scorer *)

\* Mutant: the ratio taken upside down, ondemand_price / current_price.
PriceRatioInverted(current_price, ondemand_price) ==
    IF ondemand_price > 0 THEN <<ondemand_price, current_price[1]>>
    ELSE <<1, 1>>

\* price_ratio = current_price / ondemand_price if ondemand_price > 0 else 1.0,
\* kept as the fraction <<numerator, denominator>>.
PriceRatio(current_price, ondemand_price) ==
    IF ondemand_price > 0 THEN <<current_price[1], ondemand_price>>
    ELSE <<1, 1>>

\* Mutant: >= in place of >.
RatioAtLeast(ratio, pct) == ratio[1] * 100 >= pct * ratio[2]

\* ratio > pct / 100 and ratio < pct / 100, for pct in percent
RatioAbove(ratio, pct) == ratio[1] * 100 > pct * ratio[2]
RatioBelow(ratio, pct) == ratio[1] * 100 < pct * ratio[2]

\* price_ratio > context['ratio_p50'] * (1 + cfg['ratio_spike_threshold'])
RatioSpike(ratio, context, cfg) ==
    ratio[1] * 10000
        > context.ratio_p50 * (100 + cfg.ratio_spike_threshold) * ratio[2]

Risk(score, state, tag) ==
    [risk_score |-> score, state |-> state, reason |-> [tag |-> tag]]

\* Mutant: the p92 comparison tried before the absolute threshold.
GetRiskScoreP92First(mm, pool_id, current_price, ondemand_price) ==
    IF ~mm.loaded THEN Risk(50, "normal", "models_not_loaded")
    ELSE IF pool_id \notin DOMAIN mm.pool_context
    THEN Risk(50, "normal", "pool_not_in_training_data")
    ELSE LET context == mm.pool_context[pool_id]
             cfg == mm.config
             ratio == PriceRatio(current_price, ondemand_price)
         IN  IF RatioAbove(ratio, context.ratio_p92)
             THEN Risk(80, "high-risk", "above_p92")
             ELSE IF RatioAbove(ratio, cfg.ratio_absolute_high)
             THEN Risk(90, "event", "absolute_threshold")
             ELSE IF RatioSpike(ratio, context, cfg)
             THEN Risk(60, "high-risk", "ratio_spike")
             ELSE IF RatioBelow(ratio, cfg.ratio_safe_return)
             THEN Risk(20, "safe-to-return", "below_safe_threshold")
             ELSE Risk(30, "normal", "normal_conditions")

\* ModelManager.get_risk_score
GetRiskScore(mm, pool_id, current_price, ondemand_price) ==
    IF ~mm.loaded THEN Risk(50, "normal", "models_not_loaded")
    ELSE IF pool_id \notin DOMAIN mm.pool_context
    THEN Risk(50, "normal", "pool_not_in_training_data")
    ELSE LET context == mm.pool_context[pool_id]
             cfg == mm.config
             ratio == PriceRatio(current_price, ondemand_price)
         IN  IF RatioAbove(ratio, cfg.ratio_absolute_high)
             THEN Risk(90, "event", "absolute_threshold")
             ELSE IF RatioAbove(ratio, context.ratio_p92)
             THEN Risk(80, "high-risk", "above_p92")
             ELSE IF RatioSpike(ratio, context, cfg)
             THEN Risk(60, "high-risk", "ratio_spike")
             ELSE IF RatioBelow(ratio, cfg.ratio_safe_return)
             THEN Risk(20, "safe-to-return", "below_safe_threshold")
             ELSE Risk(30, "normal", "normal_conditions")

\* A call of model_manager.get_risk_score, answered with its result.
ScoreRisk(pool_id, current_price, ondemand_price) ==
    /\ req' = [op |-> "get_risk_score", pool_id |-> pool_id,
               current_price |-> current_price,
               ondemand_price |-> ondemand_price]
    /\ resp' = Ok(GetRiskScore(model_manager, pool_id, current_price,
                               ondemand_price))
    /\ UNCHANGED <<clock, ticks, db, model_manager,
                   ondemand_price_snapshots, registering, others>>

----------------------------------------------------------------------------
(* Policy guard *)

\* SELECT ac.*, a.enabled, a.auto_switch_enabled FROM agent_configs ac
\* JOIN agents a ON a.id = ac.agent_id
\* WHERE ac.agent_id = %s AND a.client_id = %s
HasConfigData(agent_id, client_id) ==
    /\ agent_id \in DOMAIN agent_configs
    /\ agent_id \in DOMAIN agents
    /\ agents[agent_id].client_id = client_id

\* Mutant: allowed read from the enabled column.
ConfigDataAutoFromEnabled(agent_id) ==
    [enabled |-> agents[agent_id].enabled,
     auto_switch_enabled |-> agents[agent_id].enabled,
     min_savings_percent |-> agent_configs[agent_id].min_savings_percent,
     risk_threshold |-> agent_configs[agent_id].risk_threshold,
     max_switches_per_week |-> agent_configs[agent_id].max_switches_per_week,
     min_pool_duration_hours |->
         agent_configs[agent_id].min_pool_duration_hours]

ConfigData(agent_id) ==
    [enabled |-> agents[agent_id].enabled,
     auto_switch_enabled |-> agents[agent_id].auto_switch_enabled,
     min_savings_percent |-> agent_configs[agent_id].min_savings_percent,
     risk_threshold |-> agent_configs[agent_id].risk_threshold,
     max_switches_per_week |-> agent_configs[agent_id].max_switches_per_week,
     min_pool_duration_hours |->
         agent_configs[agent_id].min_pool_duration_hours]

\* Mutant: only "if not config_data".
AgentDisabledMissingOnly(agent_id, client_id) ==
    ~HasConfigData(agent_id, client_id)

\* if not config_data or not config_data['enabled']
AgentDisabled(agent_id, client_id) ==
    ~HasConfigData(agent_id, client_id) \/ ~ConfigData(agent_id).enabled

\* Mutant: the allowed switches and fallbacks of the audit table count as
\* switches when they outnumber the recorded events.
RecentSwitchesOrAllowed(events, agent_id, now) ==
    LET recorded == Cardinality({k \in DOMAIN events :
                                    /\ events[k].agent_id = agent_id
                                    /\ events[k].timestamp >= now - WeekHours})
        allowed == Cardinality({k \in DOMAIN risk_scores :
                                   /\ risk_scores[k].agent_id = agent_id
                                   /\ risk_scores[k].allowed
                                   /\ risk_scores[k].recommended_action # "stay"
                                   /\ risk_scores[k].created_at
                                         >= now - WeekHours})
    IN  IF allowed > recorded THEN allowed ELSE recorded

\* SELECT COUNT(*) FROM switch_events
\* WHERE agent_id = %s AND timestamp >= DATE_SUB(NOW(), INTERVAL 7 DAY)
RecentSwitches(events, agent_id, now) ==
    Cardinality({k \in DOMAIN events :
                    /\ events[k].agent_id = agent_id
                    /\ events[k].timestamp >= now - WeekHours})

\* Mutant: count > limit.
RateLimitedStrict(count, max_switches_per_week) ==
    count > max_switches_per_week

\* recent_switches['count'] >= config_data['max_switches_per_week']
RateLimited(count, max_switches_per_week) == count >= max_switches_per_week

\* WHERE instance_id = %s OR new_instance_id = %s
TouchingEvents(events, instance_id) ==
    {k \in DOMAIN events :
        \/ events[k].instance_id = instance_id
        \/ events[k].new_instance_id = instance_id}

\* SELECT timestamp ... ORDER BY timestamp DESC LIMIT 1
LastSwitch(events, instance_id) ==
    LET ks == TouchingEvents(events, instance_id)
    IN  IF ks = {} THEN None
        ELSE Some(CHOOSE t \in {events[k].timestamp : k \in ks} :
                     \A k \in ks : events[k].timestamp <= t)

\* hours_since = (utcnow() - last_switch['timestamp']).total_seconds() / 3600
HoursSince(last_switch, now) == now - last_switch[1]

\* if last_switch: ... if hours_since < config_data['min_pool_duration_hours']
DwellLimited(last_switch, now, min_pool_duration_hours) ==
    /\ last_switch # None
    /\ HoursSince(last_switch, now) < min_pool_duration_hours

\* The body returned when a gate short-circuits the call.
Blocked(instance, reason) ==
    [instance_id |-> instance.instance_id,
     risk_score |-> 0,
     recommended_action |-> "stay",
     recommended_mode |-> instance.current_mode,
     recommended_pool_id |-> instance.current_pool_id,
     expected_savings_per_hour |-> 0,
     allowed |-> FALSE,
     reason |-> reason]

----------------------------------------------------------------------------
(* Decision engine *)

\* instance.get('current_pool_id', 'unknown')
RecordedPool(instance) ==
    IF instance.current_pool_id = NULL THEN "unknown"
    ELSE instance.current_pool_id

\* for pool in spot_pools: if pool['pool_id'] == current_pool_id: ... break
PriceOfPool(spot_pools, pool_id) ==
    LET ks == {k \in DOMAIN spot_pools : spot_pools[k].pool_id = pool_id}
    IN  IF ks = {} THEN None
        ELSE Some(spot_pools[CHOOSE k \in ks : \A j \in ks : k <= j].price)

\* not current_spot_price: None and 0 are both falsy
Falsy(price) == price = None \/ price[1] = 0

\* if not current_spot_price and pricing['spot_pools']: take spot_pools[0]
ResolveCurrent(instance, spot_pools) ==
    LET found == PriceOfPool(spot_pools, RecordedPool(instance))
    IN  IF Falsy(found) /\ Len(spot_pools) > 0
        THEN [pool_id |-> spot_pools[1].pool_id,
              price |-> Some(spot_pools[1].price)]
        ELSE [pool_id |-> RecordedPool(instance), price |-> found]

\* Mutant: the first listed pool taken for the cheapest.
BestPoolFirstListed(spot_pools) == spot_pools[1]

\* min(pricing['spot_pools'], key=lambda p: p['price']): the first of the
\* cheapest pools; defined on a non-empty list only.
BestPool(spot_pools) ==
    spot_pools[CHOOSE k \in DOMAIN spot_pools :
                  /\ \A j \in DOMAIN spot_pools :
                        spot_pools[k].price <= spot_pools[j].price
                  /\ \A j \in DOMAIN spot_pools :
                        spot_pools[j].price = spot_pools[k].price => k <= j]

\* Mutant: savings_pct > min_savings_percent.
SavingsPctAbove(savings, ondemand_price, min_savings_percent) ==
    savings * 100 > min_savings_percent * ondemand_price

\* savings_pct >= config_data['min_savings_percent'], where
\* savings_pct = (savings / ondemand_price) * 100 and ondemand_price > 0
SavingsPctAtLeast(savings, ondemand_price, min_savings_percent) ==
    savings * 100 >= min_savings_percent * ondemand_price

\* Mutant: risk_score > risk_threshold.
FallbackDueStrict(risk, risk_threshold) ==
    /\ risk.state \in {"event", "high-risk"}
    /\ risk.risk_score > risk_threshold

\* state in ['event', 'high-risk'] and
\* risk_score >= config_data['risk_threshold']
FallbackDue(risk, risk_threshold) ==
    /\ risk.state \in {"event", "high-risk"}
    /\ risk.risk_score >= risk_threshold

Decision(risk_score, action, mode, pool_id, savings, allowed, reason) ==
    [error |-> FALSE, risk_score |-> risk_score,
     recommended_action |-> action, recommended_mode |-> mode,
     recommended_pool_id |-> pool_id,
     expected_savings_per_hour |-> savings, allowed |-> allowed,
     reason |-> reason]

\* An exception raised while evaluating: the handler answers 500.
Raised == [error |-> TRUE]

\* Lines 673-728 of get_decision: the evaluation after the gates.
Evaluate(instance, pricing, config_data, mm) ==
    LET spot_pools == pricing.spot_pools
        ondemand_price == pricing.on_demand_price
        current_mode == instance.current_mode
        cur == ResolveCurrent(instance, spot_pools)
        risk == GetRiskScore(mm, cur.pool_id, cur.price, ondemand_price)
        allowed == config_data.auto_switch_enabled
        stay == Decision(risk.risk_score, "stay", current_mode, cur.pool_id,
                         0, allowed, risk.reason)
    IN  \* current_spot_price / ondemand_price with current_spot_price None
        IF ondemand_price > 0 /\ cur.price = None THEN Raised
        ELSE IF FallbackDue(risk, config_data.risk_threshold)
        THEN \* -(ondemand_price - current_spot_price)
             IF cur.price = None THEN Raised
             ELSE Decision(risk.risk_score, "fallback_ondemand", "ondemand",
                           "n/a", 0 - (ondemand_price - cur.price[1]),
                           allowed,
                           [tag |-> "high_risk_fallback",
                            score |-> risk.risk_score])
        ELSE IF risk.state = "safe-to-return" /\ current_mode = "ondemand"
        THEN \* min() of an empty list; division by ondemand_price = 0
             IF Len(spot_pools) = 0 \/ ondemand_price = 0 THEN Raised
             ELSE LET best_pool == BestPool(spot_pools)
                  IN  IF SavingsPctAtLeast(ondemand_price - best_pool.price,
                                           ondemand_price,
                                           config_data.min_savings_percent)
                      THEN Decision(risk.risk_score, "switch_pool", "spot",
                                    best_pool.pool_id,
                                    ondemand_price - best_pool.price, allowed,
                                    [tag |-> "safe_to_return",
                                     pool_id |-> best_pool.pool_id])
                      ELSE stay
        ELSE IF current_mode = "spot" /\ risk.state = "normal"
        THEN IF Len(spot_pools) = 0 THEN Raised
             ELSE LET best_pool == BestPool(spot_pools)
                  IN  IF best_pool.pool_id # cur.pool_id
                      THEN IF ondemand_price = 0 THEN Raised
                           ELSE IF SavingsPctAtLeast(
                                      cur.price[1] - best_pool.price,
                                      ondemand_price,
                                      config_data.min_savings_percent)
                           THEN Decision(risk.risk_score, "switch_pool",
                                         "spot", best_pool.pool_id,
                                         cur.price[1] - best_pool.price,
                                         allowed,
                                         [tag |-> "better_pool",
                                          pool_id |-> best_pool.pool_id])
                           ELSE stay
                      ELSE stay
        ELSE stay

\* The row of risk_scores written for a decision; created_at defaults to NOW().
RiskScoreRow(client_id, agent_id, instance_id, d, now) ==
    [client_id |-> client_id, instance_id |-> instance_id,
     agent_id |-> agent_id, risk_score |-> d.risk_score,
     recommended_action |-> d.recommended_action,
     recommended_pool_id |-> d.recommended_pool_id,
     recommended_mode |-> d.recommended_mode,
     expected_savings_per_hour |-> d.expected_savings_per_hour,
     allowed |-> d.allowed, reason |-> d.reason, created_at |-> now]

\* round(x, 6): to the nearest multiple of 10^-6, a tie to the even one.
Round6(x) ==
    LET q == x \div MicroUnits
        r == x % MicroUnits
    IN  IF 2 * r < MicroUnits THEN q * MicroUnits
        ELSE IF 2 * r > MicroUnits THEN (q + 1) * MicroUnits
        ELSE IF q % 2 = 0 THEN q * MicroUnits
        ELSE (q + 1) * MicroUnits

\* The body returned for an evaluated decision. round(risk_score, 4) keeps
\* every score of the scorer, which are whole hundredths.
DecisionJson(instance_id, d) ==
    [instance_id |-> instance_id, risk_score |-> d.risk_score,
     recommended_action |-> d.recommended_action,
     recommended_mode |-> d.recommended_mode,
     recommended_pool_id |-> d.recommended_pool_id,
     expected_savings_per_hour |-> Round6(d.expected_savings_per_hour),
     allowed |-> d.allowed, reason |-> d.reason]

\* No gate rejects the call.
NoRejection == [tag |-> "none"]

\* Lines 620-671 of get_decision: the reason of the first gate that rejects
\* the call, the disabled gate, then the rate gate, then the dwell gate.
GateRejection(client_id, agent_id, instance) ==
    IF AgentDisabled(agent_id, client_id) THEN [tag |-> "agent_disabled"]
    ELSE LET config_data == ConfigData(agent_id)
             count == RecentSwitches(switch_events, agent_id, clock)
             last_switch == LastSwitch(switch_events, instance.instance_id)
         IN  IF RateLimited(count, config_data.max_switches_per_week)
             THEN [tag |-> "switch_limit_reached", count |-> count,
                   limit |-> config_data.max_switches_per_week]
             ELSE IF DwellLimited(last_switch, clock,
                                  config_data.min_pool_duration_hours)
             THEN [tag |-> "too_soon_to_switch",
                   hours_since |-> HoursSince(last_switch, clock),
                   minimum |-> config_data.min_pool_duration_hours]
             ELSE NoRejection

\* INSERT INTO risk_scores (...) VALUES (...)
InsertRiskScore(rows, row) == Append(rows, row)

\* Mutant: a gate rejection is audited like an evaluated decision.
DecideAuditingRejections(client_id, agent_id, instance, pricing) ==
    /\ req' = [op |-> "decide", client_id |-> client_id,
               agent_id |-> agent_id, instance |-> instance,
               pricing |-> pricing]
    /\ LET rejection == GateRejection(client_id, agent_id, instance)
       IN  IF rejection # NoRejection
           THEN /\ Len(risk_scores) < MaxDecisions
                /\ resp' = Ok(Blocked(instance, rejection))
                /\ risk_scores' =
                      InsertRiskScore(risk_scores,
                          RiskScoreRow(client_id, agent_id,
                                       instance.instance_id,
                                       Blocked(instance, rejection), clock))
           ELSE LET d == Evaluate(instance, pricing, ConfigData(agent_id),
                                  model_manager)
                IN  IF d.error
                    THEN /\ resp' = Err(500)
                         /\ UNCHANGED risk_scores
                    ELSE /\ Len(risk_scores) < MaxDecisions
                         /\ risk_scores' =
                               InsertRiskScore(risk_scores,
                                   RiskScoreRow(client_id, agent_id,
                                                instance.instance_id,
                                                d, clock))
                         /\ resp' = Ok(DecisionJson(instance.instance_id, d))

\* get_decision: the gates, the evaluation, the audit row and the response,
\* with at most bound rows in the audit table.
DecideWithin(bound, client_id, agent_id, instance, pricing) ==
    /\ req' = [op |-> "decide", client_id |-> client_id,
               agent_id |-> agent_id, instance |-> instance,
               pricing |-> pricing]
    /\ LET rejection == GateRejection(client_id, agent_id, instance)
       IN  IF rejection # NoRejection
           THEN /\ resp' = Ok(Blocked(instance, rejection))
                /\ UNCHANGED risk_scores
           ELSE LET d == Evaluate(instance, pricing, ConfigData(agent_id),
                                  model_manager)
                IN  IF d.error
                    THEN /\ resp' = Err(500)
                         /\ UNCHANGED risk_scores
                    ELSE /\ Len(risk_scores) < bound
                         /\ risk_scores' =
                               InsertRiskScore(risk_scores,
                                   RiskScoreRow(client_id, agent_id,
                                                instance.instance_id,
                                                d, clock))
                         /\ resp' = Ok(DecisionJson(instance.instance_id, d))

\* get_decision with the audit table bounded by MaxDecisions.
Decide(client_id, agent_id, instance, pricing) ==
    DecideWithin(MaxDecisions, client_id, agent_id, instance, pricing)

\* Mutant: an allowed switch or fallback is enqueued as a command.
GetDecisionEnqueuing(client_id, agent_id, instance, pricing) ==
    /\ Decide(client_id, agent_id, instance, pricing)
    /\ pending_switch_commands' =
          IF /\ resp'.status = 200
             /\ resp'.body.allowed
             /\ resp'.body.recommended_action # "stay"
             /\ Len(pending_switch_commands) < MaxCommands
          THEN Append(pending_switch_commands,
                      NewCommand(Len(pending_switch_commands) + 1, agent_id,
                                 instance.instance_id,
                                 resp'.body.recommended_mode,
                                 resp'.body.recommended_pool_id, clock))
          ELSE pending_switch_commands
    /\ UNCHANGED <<clock, ticks, agents, agent_configs, instances,
                   total_savings, switch_events, model_manager,
                   ondemand_price_snapshots, registering, others>>

\* POST /api/agents/<agent_id>/decide: no other table is written.
GetDecision(client_id, agent_id, instance, pricing) ==
    /\ Decide(client_id, agent_id, instance, pricing)
    /\ UNCHANGED <<clock, ticks, agents, agent_configs, instances,
                   total_savings, switch_events, pending_switch_commands,
                   model_manager,
                   ondemand_price_snapshots, registering, others>>

\* The same request with the audit table bounded by bound.
GetDecisionWithin(bound, client_id, agent_id, instance, pricing) ==
    /\ DecideWithin(bound, client_id, agent_id, instance, pricing)
    /\ UNCHANGED <<clock, ticks, agents, agent_configs, instances,
                   total_savings, switch_events, pending_switch_commands,
                   model_manager,
                   ondemand_price_snapshots, registering, others>>

----------------------------------------------------------------------------
(* Initial state: two registered agents of two clients, one instance each, *)
(* empty ledger, queue and audit tables.                                   *)

AgentRow(client_id) ==
    [client_id |-> client_id, enabled |-> TRUE, auto_switch_enabled |-> TRUE]

InstanceRow(client_id, agent_id, mode, pool_id) ==
    [client_id |-> client_id, agent_id |-> agent_id, current_mode |-> mode,
     current_pool_id |-> pool_id, spot_price |-> 2, is_active |-> TRUE,
     last_switch_at |-> None, baseline_ondemand_price |-> Some(4),
     ondemand_price |-> None]

PolicyRow(max_switches, min_hours, min_savings, risk_threshold) ==
    [max_switches_per_week |-> max_switches,
     min_pool_duration_hours |-> min_hours,
     min_savings_percent |-> min_savings,
     risk_threshold |-> risk_threshold]

\* Pool statistics as in the worked scenario: p50 0.5, p92 0.9, absolute
\* high 0.95; p2 has no baseline.
LoadedModel ==
    [loaded |-> TRUE,
     pool_context |-> [p \in {"p1"} |-> [ratio_p50 |-> 50, ratio_p92 |-> 90]],
     config |-> [ratio_spike_threshold |-> 50, ratio_absolute_high |-> 95,
                 ratio_safe_return |-> 40]]

\* A loaded model with statistics for pool p1 only.
RiskModel(p50, p92, spike, absolute_high, safe_return) ==
    [loaded |-> TRUE,
     pool_context |-> [p \in {"p1"} |-> [ratio_p50 |-> p50, ratio_p92 |-> p92]],
     config |-> [ratio_spike_threshold |-> spike,
                 ratio_absolute_high |-> absolute_high,
                 ratio_safe_return |-> safe_return]]

\* ModelManager() before load_models has succeeded.
NotLoadedModel ==
    [loaded |-> FALSE, pool_context |-> << >>, config |-> << >>]

InitWith(policies, models) ==
    /\ clock = 0
    /\ ticks = 0
    /\ agents = [a \in Agents |->
                    AgentRow(IF a = "a1" THEN "c1" ELSE "c2")]
    /\ \E pol \in policies : agent_configs = [a \in Agents |-> pol]
    /\ instances = [i \in {"i1", "i2"} |->
                       IF i = "i1" THEN InstanceRow("c1", "a1", "spot", "p1")
                       ELSE InstanceRow("c2", "a2", "spot", "p1")]
    /\ total_savings = [c \in Clients |-> 0]
    /\ switch_events = << >>
    /\ pending_switch_commands = << >>
    /\ risk_scores = << >>
    /\ model_manager \in models
    /\ ondemand_price_snapshots = << >>
    /\ registering = NoRegistrations
    /\ client_savings_monthly = [c \in Clients |-> None]
    /\ held = 0
    /\ frames = << >>
    /\ store_up = TRUE
    /\ inbox = [a \in Agents |-> {}]
    /\ req = Idle
    /\ resp = Idle

----------------------------------------------------------------------------
(* Pricing feed *)

\* INSERT INTO ondemand_price_snapshots (..., price, captured_at)
\* VALUES (..., NOW())
InsertSnapshot(rows, price, now) ==
    Append(rows, [price |-> price, captured_at |-> now])

\* UPDATE instances SET ondemand_price = %s WHERE id = %s AND client_id = %s
SetOndemandPrice(insts, instance_id, client_id, price) ==
    [i \in DOMAIN insts |->
        IF i = instance_id /\ insts[i].client_id = client_id
        THEN [insts[i] EXCEPT !.ondemand_price = Some(price)]
        ELSE insts[i]]

\* POST /api/agents/<agent_id>/pricing-report; all instances are of one
\* type in one region. The spot pool tables are written and never read.
PricingReport(client_id, instance_id, price) ==
    /\ Len(ondemand_price_snapshots) < MaxPriceReports
    /\ req' = [op |-> "pricing_report", client_id |-> client_id,
               instance_id |-> instance_id, price |-> price]
    /\ instances' = SetOndemandPrice(instances, instance_id, client_id, price)
    /\ ondemand_price_snapshots' =
          InsertSnapshot(ondemand_price_snapshots, price, clock)
    /\ resp' = Success
    /\ UNCHANGED <<clock, ticks, agents, agent_configs, total_savings,
                   switch_events, pending_switch_commands, risk_scores,
                   model_manager, registering, others>>

\* SELECT price FROM ondemand_price_snapshots ... ORDER BY captured_at DESC
\* LIMIT 1: None without a row, else the price of a row captured last, any
\* of them when several were captured at the same time.
LatestPrices(rows) ==
    IF rows = << >> THEN {None}
    ELSE {Some(rows[k].price) :
             k \in {j \in DOMAIN rows :
                       \A i \in DOMAIN rows :
                          rows[i].captured_at <= rows[j].captured_at}}

----------------------------------------------------------------------------
(* Savings aggregation *)

\* The sum of the savings_impact of the client's rows among the first n
\* rows of switch_events.
RECURSIVE SavingsOfPeriod(_, _, _)
SavingsOfPeriod(events, client_id, n) ==
    IF n = 0 THEN 0
    ELSE SavingsOfPeriod(events, client_id, n - 1)
            + (IF events[n].client_id = client_id
               THEN events[n].savings_impact ELSE 0)

\* CALL calculate_monthly_savings(client, year, month): the procedure is
\* part of the database schema; it aggregates the client's switch events of
\* the period into the client's row for the period, replacing what an
\* earlier run wrote, and leaves every other table as it is.
CalculateMonthlySavings(events, client_id) ==
    Some(SavingsOfPeriod(events, client_id, Len(events)))

\* Mutant: the loop over the clients ends at the first client whose
\* procedure call raises, the clients being taken in the order c1, c2.
AggregatedUntilFailure(failing) ==
    IF "c1" \in failing THEN {}
    ELSE IF "c2" \in failing THEN {"c1"}
    ELSE Clients

\* for client in clients: try: callproc(...); commit() except Exception:
\* the clients whose aggregation is committed when the procedure raises
\* for the clients in failing.
Aggregated(failing) == Clients \ failing

\* connection_pool.get_connection() raises when the server does not answer
\* or every connection of the pool is taken.
NoConnection == ~store_up \/ held >= PoolSize

\* compute_monthly_savings_job, run while the SELECT of the active clients
\* fails or not and while the procedure raises for the clients in failing.
\* Every client of the model is active. The connection is closed at
\* l.333-334, which a failure before the loop does not reach.
ComputeSavings(select_fails, failing) ==
    /\ req' = [op |-> "compute_monthly_savings_job",
               select_fails |-> select_fails, failing |-> failing,
               connected |-> ~NoConnection]
    /\ IF NoConnection
       THEN UNCHANGED <<client_savings_monthly, held>>
       ELSE IF select_fails
       THEN /\ held' = held + 1
            /\ UNCHANGED client_savings_monthly
       ELSE /\ client_savings_monthly' =
                  [c \in Clients |->
                      IF c \in Aggregated(failing)
                      THEN CalculateMonthlySavings(switch_events, c)
                      ELSE client_savings_monthly[c]]
            /\ UNCHANGED held
    /\ resp' = Idle
    /\ UNCHANGED <<clock, ticks, db, model_manager, ondemand_price_snapshots,
                   registering, frames, store_up, inbox>>

\* compute_monthly_savings_job against a store that answers every call.
ComputeMonthlySavingsJob == ComputeSavings(FALSE, {})

----------------------------------------------------------------------------
(* Registration. The handler runs its queries one by one, each in its own  *)
(* transaction, and another thread may run between any two of them.        *)

\* AgentRegistrationSchema: instance_id matches ^i-[a-f0-9]+$
ValidInstanceId(instance_id) == instance_id # "invalid"

\* agent_id = f"agent-{validated_data['instance_id'][:8]}": i1 and i3 have
\* their first 8 characters in common, and so have i5 and i6.
AgentIdOf(instance_id) ==
    CASE instance_id \in {"i1", "i3"} -> "a1"
      [] instance_id = "i2" -> "a2"
      [] OTHER -> "a3"

\* INSERT INTO agent_configs (agent_id): every other column takes its
\* default.
DefaultPolicyRow == PolicyRow(2, 1, 20, 70)

\* The request a thread is handling.
Call(t) == registering.calls[t]

\* The thread goes on to its next query.
Goto(t, call) ==
    registering' = [registering EXCEPT !.calls[t] = call]

\* The thread has answered its request.
Done(t) == Goto(t, NotRegistering)

RegisterRequest(call) ==
    [op |-> "register", client_id |-> call.client_id,
     instance_id |-> call.instance_id]

\* The response of a handler that has run its last query: the agent and
\* its policy, or 500 when config_data is None and config_data['enabled']
\* raises.
Registered(call) ==
    IF call.config_data = None THEN Err(500)
    ELSE Ok([agent_id |-> call.agent_id, client_id |-> call.client_id,
             config |-> call.config_data[1]])

\* Mutant: the policy row looked up in agents.
ConfigExistsInAgents(agent_id) == agent_id \in DOMAIN agents

\* SELECT agent_id FROM agent_configs WHERE agent_id = %s
ConfigExists(agent_id) == agent_id \in DOMAIN agent_configs

\* Mutant: the UPDATE without "AND baseline_ondemand_price IS NULL".
SetBaseline(insts, instance_id, price) ==
    [i \in DOMAIN insts |->
        IF i = instance_id
        THEN [insts[i] EXCEPT !.baseline_ondemand_price = price]
        ELSE insts[i]]

\* UPDATE instances SET baseline_ondemand_price = %s
\* WHERE id = %s AND baseline_ondemand_price IS NULL
SetBaselineIfNull(insts, instance_id, price) ==
    [i \in DOMAIN insts |->
        IF i = instance_id /\ insts[i].baseline_ondemand_price = None
        THEN [insts[i] EXCEPT !.baseline_ondemand_price = price]
        ELSE insts[i]]

\* The row of instances written by register_agent.
RegisteredInstance(client_id, agent_id, baseline_price) ==
    [client_id |-> client_id, agent_id |-> agent_id, current_mode |-> NULL,
     current_pool_id |-> NULL, spot_price |-> 0, is_active |-> TRUE,
     last_switch_at |-> None, baseline_ondemand_price |-> baseline_price,
     ondemand_price |-> None]

\* POST /api/agents/register, up to the first query:
\* SELECT id FROM agents WHERE id = %s
RegisterAgent(t, client_id, instance_id) ==
    /\ Call(t) = NotRegistering
    /\ registering.count < MaxRegistrations
    /\ req' = [op |-> "register", client_id |-> client_id,
               instance_id |-> instance_id]
    /\ IF ~ValidInstanceId(instance_id)
       THEN /\ resp' = Err(400)
            /\ registering' = [registering EXCEPT !.count = @ + 1]
       ELSE /\ resp' = Idle
            /\ registering' =
                  [registering EXCEPT
                      !.count = @ + 1,
                      !.calls[t] =
                          [pc |-> "write_agent", client_id |-> client_id,
                           instance_id |-> instance_id,
                           agent_id |-> AgentIdOf(instance_id),
                           existing |-> AgentIdOf(instance_id)
                                           \in DOMAIN agents,
                           config_data |-> None,
                           instance_exists |-> FALSE,
                           latest_od_price |-> None]]
    /\ UNCHANGED <<clock, ticks, db, model_manager, ondemand_price_snapshots, others>>

\* if existing: UPDATE agents SET client_id = %s, ... WHERE id = %s
\* else: INSERT INTO agents (id, client_id, ...); a second row with the same
\* id is refused and the request answered with 500.
WriteAgent(t) ==
    LET call == Call(t)
    IN  /\ call.pc = "write_agent"
        /\ req' = RegisterRequest(call)
        /\ IF call.existing
           THEN /\ agents' = [agents EXCEPT ![call.agent_id].client_id =
                                               call.client_id]
                /\ resp' = Idle
                /\ Goto(t, [call EXCEPT !.pc = "select_config"])
           ELSE IF call.agent_id \in DOMAIN agents
           THEN /\ resp' = Err(500)
                /\ Done(t)
                /\ UNCHANGED agents
           ELSE /\ agents' = [a \in DOMAIN agents \cup {call.agent_id} |->
                                 IF a = call.agent_id
                                 THEN AgentRow(call.client_id)
                                 ELSE agents[a]]
                /\ resp' = Idle
                /\ Goto(t, [call EXCEPT !.pc = "select_config"])
        /\ UNCHANGED <<clock, ticks, agent_configs, instances, total_savings,
                       switch_events, pending_switch_commands, risk_scores,
                       model_manager, ondemand_price_snapshots, others>>

\* config_exists = SELECT agent_id FROM agent_configs WHERE agent_id = %s
SelectConfig(t) ==
    LET call == Call(t)
    IN  /\ call.pc = "select_config"
        /\ req' = RegisterRequest(call)
        /\ resp' = Idle
        /\ Goto(t, [call EXCEPT !.pc = IF ConfigExists(call.agent_id)
                                       THEN "select_config_data"
                                       ELSE "insert_config"])
        /\ UNCHANGED <<clock, ticks, db, model_manager,
                       ondemand_price_snapshots, others>>

\* The key of agent_configs is agent_id: a second row for the agent is
\* refused.
DuplicateConfig(rows, agent_id) == agent_id \in DOMAIN rows

\* if not config_exists: INSERT INTO agent_configs (agent_id) VALUES (%s)
InsertConfig(t) ==
    LET call == Call(t)
    IN  /\ call.pc = "insert_config"
        /\ req' = RegisterRequest(call)
        /\ IF DuplicateConfig(agent_configs, call.agent_id)
           THEN /\ resp' = Err(500)
                /\ Done(t)
                /\ UNCHANGED agent_configs
           ELSE /\ agent_configs' =
                      [a \in DOMAIN agent_configs \cup {call.agent_id} |->
                          IF a = call.agent_id THEN DefaultPolicyRow
                          ELSE agent_configs[a]]
                /\ resp' = Idle
                /\ Goto(t, [call EXCEPT !.pc = "select_config_data"])
        /\ UNCHANGED <<clock, ticks, agents, instances, total_savings,
                       switch_events, pending_switch_commands, risk_scores,
                       model_manager, ondemand_price_snapshots, others>>

\* config_data = SELECT ac.*, a.enabled, a.auto_switch_enabled, ...
SelectConfigData(t) ==
    LET call == Call(t)
    IN  /\ call.pc = "select_config_data"
        /\ req' = RegisterRequest(call)
        /\ resp' = Idle
        /\ Goto(t, [call EXCEPT !.pc = "select_instance",
                                !.config_data =
                                    IF /\ call.agent_id \in DOMAIN agents
                                       /\ call.agent_id
                                             \in DOMAIN agent_configs
                                    THEN Some(ConfigData(call.agent_id))
                                    ELSE None])
        /\ UNCHANGED <<clock, ticks, db, model_manager,
                       ondemand_price_snapshots, others>>

\* instance_exists = SELECT id, baseline_ondemand_price FROM instances
\* WHERE id = %s; an existing row with a baseline ends the handler.
SelectInstance(t) ==
    LET call == Call(t)
        exists == call.instance_id \in DOMAIN instances
    IN  /\ call.pc = "select_instance"
        /\ req' = RegisterRequest(call)
        /\ IF exists /\
              ~Falsy(instances[call.instance_id].baseline_ondemand_price)
           THEN /\ resp' = Registered(call)
                /\ Done(t)
           ELSE /\ resp' = Idle
                /\ Goto(t, [call EXCEPT !.pc = "select_latest",
                                        !.instance_exists = exists])
        /\ UNCHANGED <<clock, ticks, db, model_manager,
                       ondemand_price_snapshots, others>>

\* latest_od_price = SELECT price FROM ondemand_price_snapshots ...; for an
\* existing row without a baseline and no snapshot the handler ends here.
SelectLatestPrice(t) ==
    LET call == Call(t)
    IN  /\ call.pc = "select_latest"
        /\ req' = RegisterRequest(call)
        /\ \E latest \in LatestPrices(ondemand_price_snapshots) :
              IF call.instance_exists /\ latest = None
              THEN /\ resp' = Registered(call)
                   /\ Done(t)
              ELSE /\ resp' = Idle
                   /\ Goto(t, [call EXCEPT !.pc = "write_instance",
                                           !.latest_od_price = latest])
        /\ UNCHANGED <<clock, ticks, db, model_manager,
                       ondemand_price_snapshots, others>>

\* if not instance_exists: INSERT INTO instances (...), refused with 500
\* when the id has a row by now; else the UPDATE of the baseline. Then the
\* 200 response.
WriteInstance(t) ==
    LET call == Call(t)
    IN  /\ call.pc = "write_instance"
        /\ req' = RegisterRequest(call)
        /\ IF call.instance_exists
           THEN /\ instances' = SetBaselineIfNull(instances, call.instance_id,
                                                  call.latest_od_price)
                /\ resp' = Registered(call)
           ELSE IF call.instance_id \in DOMAIN instances
           THEN /\ resp' = Err(500)
                /\ UNCHANGED instances
           ELSE /\ instances' =
                      [i \in DOMAIN instances \cup {call.instance_id} |->
                          IF i = call.instance_id
                          THEN RegisteredInstance(
                                   call.client_id, call.agent_id,
                                   IF call.latest_od_price # None
                                   THEN call.latest_od_price
                                   ELSE Some(DefaultBaseline))
                          ELSE instances[i]]
                /\ resp' = Registered(call)
        /\ Done(t)
        /\ UNCHANGED <<clock, ticks, agents, agent_configs, total_savings,
                       switch_events, pending_switch_commands, risk_scores,
                       model_manager, ondemand_price_snapshots, others>>

\* A thread runs the next query of the register request it is handling.
ContinueRegistration(t) ==
    \/ WriteAgent(t)
    \/ SelectConfig(t)
    \/ InsertConfig(t)
    \/ SelectConfigData(t)
    \/ SelectInstance(t)
    \/ SelectLatestPrice(t)
    \/ WriteInstance(t)

----------------------------------------------------------------------------
(* Request values *)

Inst(instance_id, mode, pool_id) ==
    [instance_id |-> instance_id, current_mode |-> mode,
     current_pool_id |-> pool_id]

Pool(pool_id, price) == [pool_id |-> pool_id, price |-> price]

Snapshot(on_demand_price, spot_pools) ==
    [on_demand_price |-> on_demand_price, spot_pools |-> spot_pools]

Side(instance_id, mode, pool_id) ==
    [instance_id |-> instance_id, pool_id |-> pool_id, mode |-> mode]

Prices(old_spot, new_spot, on_demand) ==
    [old_spot |-> old_spot, new_spot |-> new_spot, on_demand |-> on_demand]

----------------------------------------------------------------------------
(* The server as one agent sees it: the operator's overrides and settings, *)
(* the agent's polls, acknowledgments, decisions and switch reports, the   *)
(* retention job and the clock, one or two requests of each kind.          *)

Init == InitWith({PolicyRow(2, 1, 20, 70)}, {LoadedModel})

Next ==
    \/ Tick(1)
    \/ ForceInstanceSwitch("i1", "pool", "p2")
    \/ GetPendingCommands("a1")
    \/ \E k \in 1..MaxCommands : MarkCommandExecuted("a1", k)
    \/ GetDecision("c1", "a1", Inst("i1", "spot", "p1"),
                   Snapshot(100, <<Pool("p1", 96), Pool("p2", 30)>>))
    \/ SwitchReport("c1", "a1", Side("i1", "spot", "p1"),
                    Side("i3", "spot", "p2"), Prices(3, Some(1), 4), 0)
    \/ \E v \in BOOLEAN : UpdateAgentSettings("a1", v)
    \/ CleanupOldDataJob

Spec == Init /\ [][Next]_vars

----------------------------------------------------------------------------
(* The command queue alone: overrides for both agents, valid and invalid,  *)
(* polls, and acknowledgments of known, foreign and unknown ids.           *)

NextQueue ==
    \/ Tick(1)
    \/ \E i \in Instances,
          t \in {<<"ondemand", "p1">>, <<"pool", "p2">>, <<"spot", NULL>>} :
          ForceInstanceSwitch(i, t[1], t[2])
    \/ \E a \in Agents : GetPendingCommands(a)
    \/ \E a \in Agents, k \in 1..(MaxCommands + 1) : MarkCommandExecuted(a, k)

SpecQueue == Init /\ [][NextQueue]_vars

----------------------------------------------------------------------------
(* The switch ledger alone: reports of both clients, with and without the  *)
(* optional new_spot price, with positive and negative savings impact.     *)

NextLedger ==
    \E c \in Clients,
       old \in {Side("i1", "spot", "p1"), Side("i2", "spot", "p1")},
       new \in {Side("i3", "spot", "p2"), Side("i1", "ondemand", NULL),
                Side("i2", "spot", "p2")},
       prices \in {Prices(3, Some(1), 4), Prices(3, None, 4),
                   Prices(1, Some(3), 4)} :
       SwitchReport(c, "a1", old, new, prices, 0)

SpecLedger == Init /\ [][NextLedger]_vars

----------------------------------------------------------------------------
(* The policy guard: decisions against a ledger that grows while the clock *)
(* moves by an hour or by a week and an hour. Reports carry the agent's    *)
(* own timestamp, hour 0 or hour 1.                                        *)

InitGate ==
    InitWith({PolicyRow(1, 1, 20, 70), PolicyRow(2, 2, 20, 70)}, {LoadedModel})

NextGate ==
    \/ \E d \in {1, WeekHours + 1} : Tick(d)
    \/ \E v \in BOOLEAN : ToggleAgent("a1", v)
    \/ \E r \in {<<"a1", "i1", "i3", 0>>, <<"a1", "i1", "i3", 1>>,
                   <<"a1", "i3", "i1", 0>>, <<"a1", "i3", "i1", 1>>,
                   <<"a2", "i1", "i3", 0>>} :
          SwitchReport("c1", r[1], Side(r[2], "spot", "p1"),
                       Side(r[3], "spot", "p2"), Prices(3, Some(1), 4), r[4])
    \/ \E i \in {"i1", "i3"},
          pricing \in {Snapshot(100, <<Pool("p1", 96)>>), Snapshot(0, << >>)} :
          GetDecision("c1", "a1", Inst(i, "spot", "p1"), pricing)

SpecGate == InitGate /\ [][NextGate]_vars

----------------------------------------------------------------------------
(* The decision engine: decisions of agent a1 for instance i1 in either    *)
(* mode, recorded on the pool with statistics or on the one without,       *)
(* against snapshots that lead into every branch, under two policies and   *)
(* three models, with the agent and its auto-switching on or off.          *)

InitEngine ==
    InitWith({PolicyRow(2, 1, 20, 70), PolicyRow(2, 1, 70, 80)},
             {LoadedModel, RiskModel(50, 90, 50, 95, 80), NotLoadedModel})

EngineSnapshots ==
    {Snapshot(1000, <<Pool("p1", 960), Pool("p2", 300)>>),
     Snapshot(1000, <<Pool("p1", 964)>>),
     Snapshot(1000, <<Pool("p1", 800), Pool("p2", 600)>>),
     Snapshot(1000, <<Pool("p1", 950)>>),
     Snapshot(1000, <<Pool("p2", 310), Pool("p1", 300)>>),
     Snapshot(1000, <<Pool("p1", 310), Pool("p2", 400)>>),
     Snapshot(1000, <<Pool("p1", 400)>>),
     Snapshot(1000, <<Pool("p2", 970)>>),
     Snapshot(0, <<Pool("p2", 50), Pool("p1", 30)>>),
     Snapshot(1000, << >>)}

NextEngine ==
    \/ \E v \in BOOLEAN : ToggleAgent("a1", v)
    \/ \E v \in BOOLEAN : UpdateAgentSettings("a1", v)
    \/ \E mode \in {"spot", "ondemand"}, pricing \in EngineSnapshots :
          GetDecision("c1", "a1", Inst("i1", mode, "p1"), pricing)
    \/ \E mode \in {"spot", "ondemand"},
          pricing \in {Snapshot(1000, <<Pool("p1", 960), Pool("p2", 300)>>),
                       Snapshot(1000, <<Pool("p2", 970)>>),
                       Snapshot(0, <<Pool("p2", 50), Pool("p1", 30)>>)} :
          GetDecision("c1", "a1", Inst("i1", mode, "p2"), pricing)

SpecEngine == InitEngine /\ [][NextEngine]_vars

----------------------------------------------------------------------------
(* Policy and engine together: the three gates and the auto-switch flag    *)
(* around decisions on a snapshot that calls for a fallback and on one     *)
(* that calls for staying.                                                 *)

InitPolicy == InitWith({PolicyRow(2, 1, 20, 70)}, {LoadedModel})

NextPolicy ==
    \/ Tick(1)
    \/ \E v \in BOOLEAN : ToggleAgent("a1", v)
    \/ \E v \in BOOLEAN : UpdateAgentSettings("a1", v)
    \/ SwitchReport("c1", "a1", Side("i3", "spot", "p1"),
                    Side("i1", "spot", "p2"), Prices(3, Some(1), 4), 0)
    \/ \E pricing \in {Snapshot(1000, <<Pool("p1", 960), Pool("p2", 300)>>),
                        Snapshot(1000, <<Pool("p1", 500)>>)} :
          GetDecision("c1", "a1", Inst("i1", "spot", "p1"), pricing)

SpecPolicy == InitPolicy /\ [][NextPolicy]_vars

----------------------------------------------------------------------------
(* The risk scorer alone: calls for a pool with statistics and for one     *)
(* without, under thresholds in every relative order, at ratios on, below  *)
(* and above each threshold, with a spot price above the on-demand price   *)
(* and with an on-demand price of zero.                                    *)

RiskModels ==
    {RiskModel(p50, p92, spike, absolute_high, safe_return) :
        p50 \in {30, 50}, p92 \in {50, 90}, spike \in {0, 50},
        absolute_high \in {60, 95}, safe_return \in {40, 80}}
    \cup {NotLoadedModel}

InitRisk == InitWith({PolicyRow(2, 1, 20, 70)}, RiskModels)

NextRisk ==
    \E pool_id \in Pools,
       price \in {30, 40, 45, 50, 60, 75, 80, 90, 95, 96, 200},
       ondemand_price \in {0, 100} :
       ScoreRisk(pool_id, Some(price), ondemand_price)

SpecRisk == InitRisk /\ [][NextRisk]_vars

----------------------------------------------------------------------------
(* Pool hops and stale pools: decisions for instance i1 recorded on a pool *)
(* the snapshot lists, on one it does not list (p3) and on none, against   *)
(* snapshots whose cheapest pool is listed first or second, under a        *)
(* savings floor of 10 or 20 percent, with and without statistics.         *)

InitHop ==
    InitWith({PolicyRow(2, 1, 20, 70), PolicyRow(2, 1, 10, 70)},
             {LoadedModel, NotLoadedModel})

HopSnapshots ==
    {Snapshot(1000, <<Pool("p1", 400), Pool("p2", 300)>>),
     Snapshot(1000, <<Pool("p1", 600), Pool("p2", 300)>>),
     Snapshot(1000, <<Pool("p1", 800), Pool("p2", 600)>>),
     Snapshot(1000, <<Pool("p2", 300), Pool("p1", 300)>>),
     Snapshot(1000, <<Pool("p1", 960), Pool("p2", 300)>>),
     Snapshot(1000, <<Pool("p2", 300), Pool("p1", 960)>>),
     Snapshot(1000, <<Pool("p2", 300), Pool("p1", 0)>>)}

NextHop ==
    \/ \E v \in BOOLEAN : UpdateAgentSettings("a1", v)
    \/ \E mode \in {"spot", "ondemand"}, pool_id \in {"p1", "p2", "p3", NULL},
          pricing \in HopSnapshots :
          GetDecision("c1", "a1", Inst("i1", mode, pool_id), pricing)

SpecHop == InitHop /\ [][NextHop]_vars

----------------------------------------------------------------------------
(* Deliveries of switch reports, at least once each: agent a1 of client c1 *)
(* moves from i1 to i3, from i3 to i4 and from i4 back to i3 on another    *)
(* pool, and every report may arrive again after later ones.               *)

ReplayReports ==
    {<<Side("i1", "spot", "p1"), Side("i3", "spot", "p2"), 0>>,
     <<Side("i3", "spot", "p2"), Side("i4", "ondemand", NULL), 1>>,
     <<Side("i4", "ondemand", NULL), Side("i3", "spot", "p1"), 2>>}

NextReplay ==
    \E r \in ReplayReports,
       prices \in {Prices(3, Some(1), 4), Prices(3, None, 4)} :
       RecordSwitch(MaxDeliveries, NoFailure, "c1", "a1", r[1], r[2],
                    prices, r[3])

SpecReplay == Init /\ [][NextReplay]_vars

----------------------------------------------------------------------------
(* Switch reports against a store that may fail: reports of agent a1 with  *)
(* a positive and with a negative savings impact, the store answering      *)
(* every statement or failing at any one of them.                          *)

NextFailure ==
    \E failing \in Range(Statements) \cup {NoFailure},
       r \in {<<"i1", "i3">>, <<"i3", "i1">>},
       prices \in {Prices(3, Some(1), 4), Prices(1, Some(3), 4)} :
       RecordSwitch(MaxEvents, failing, "c1", "a1", Side(r[1], "spot", "p1"),
                    Side(r[2], "spot", "p2"), prices, 0)

SpecFailure == Init /\ [][NextFailure]_vars

----------------------------------------------------------------------------
(* Registrations on two threads: instances i5 and i6 of a new agent, for   *)
(* either client, and instance i3 of the registered agent a1.              *)

NextRegister ==
    \/ \E t \in Threads, client_id \in Clients,
          instance_id \in {"i3", "i5", "i6", "invalid"} :
          RegisterAgent(t, client_id, instance_id)
    \/ \E t \in Threads : ContinueRegistration(t)

SpecRegister == Init /\ [][NextRegister]_vars

----------------------------------------------------------------------------
(* The baseline price: registrations and re-registrations of i3 on two    *)
(* threads, i3 getting its row from a switch report or from its first      *)
(* registration, while pricing reports bring an on-demand price that rises *)
(* with the clock and the maintenance jobs run.                            *)

\* The steps of a registration whose agent has its policy row: a1 has one
\* from the start, so the INSERT of l.420-424 is not reached.
RegistrationOfKnownAgent(t) ==
    \/ WriteAgent(t)
    \/ SelectConfig(t)
    \/ SelectConfigData(t)
    \/ SelectInstance(t)
    \/ SelectLatestPrice(t)
    \/ WriteInstance(t)

NextBaseline ==
    \/ Tick(SnapshotRetentionHours + 1)
    \/ \E t \in Threads : RegisterAgent(t, "c1", "i3")
    \/ \E t \in Threads : RegistrationOfKnownAgent(t)
    \/ PricingReport("c1", "i1", 5 + ticks)
    \/ SwitchReport("c1", "a1", Side("i1", "spot", "p1"),
                    Side("i3", "spot", "p2"), Prices(3, Some(3), 4), 0)
    \/ CleanupOldDataJob
    \/ ComputeMonthlySavingsJob

SpecBaseline == Init /\ [][NextBaseline]_vars

----------------------------------------------------------------------------
(* Evaluations racing with switch reports: agent a1 asks for decisions on  *)
(* i1, and on i3 once it has moved there, and reports its switches from i1 *)
(* to i3 and to i4 when they are done, under a limit of one or of two      *)
(* switches per week. A decision reads switch_events and writes risk_scores *)
(* only, so concurrent decide requests behave as their requests taken one  *)
(* after the other; the switch a decision leads to is recorded by a later  *)
(* request of the agent.                                                   *)

InitRace == InitWith({PolicyRow(1, 1, 20, 70), PolicyRow(2, 1, 20, 70)},
                     {LoadedModel})

NextRace ==
    \/ Tick(1)
    \/ \E instance \in {Inst("i1", "spot", "p1"), Inst("i3", "spot", "p2")},
          pricing \in {Snapshot(1000, <<Pool("p1", 960), Pool("p2", 300)>>)} :
          GetDecisionWithin(MaxEvaluations, "c1", "a1", instance, pricing)
    \/ GetDecisionWithin(MaxEvaluations, "c1", "a1", Inst("i1", "spot", "p1"),
                         Snapshot(1000, <<Pool("p1", 500), Pool("p2", 500)>>))
    \/ \E new_inst \in {Side("i3", "spot", "p2"), Side("i4", "ondemand", NULL)} :
          RecordSwitch(MaxDeliveries, NoFailure, "c1", "a1",
                       Side("i1", "spot", "p1"), new_inst,
                       Prices(3, Some(1), 4), clock)

SpecRace == InitRace /\ [][NextRace]_vars

----------------------------------------------------------------------------
(* Manual overrides: requests for the registered instance i1 and for i9,   *)
(* which has no row, with a target that is valid or not and a pool id that *)
(* names a pool, names no pool (p9) or is missing, each of which may be    *)
(* delivered again, and polls of the agent.                                *)

OverrideTargets ==
    {<<"ondemand", NULL>>, <<"pool", "p2">>, <<"pool", "p9">>,
     <<"pool", NULL>>, <<"spot", "p2">>}

NextOverride ==
    \/ \E i \in {"i1", "i9"}, t \in OverrideTargets :
          ForceInstanceSwitch(i, t[1], t[2])
    \/ GetPendingCommands("a1")

SpecOverride == Init /\ [][NextOverride]_vars

----------------------------------------------------------------------------
(* The savings job: switch reports of both clients, with a positive and a  *)
(* negative impact, and runs of the job in which the procedure raises for  *)
(* no client, for one or for both, or the SELECT of the clients fails.     *)

NextSavings ==
    \/ \E r \in {<<"c1", "a1", "i1", "i3">>, <<"c2", "a2", "i2", "i4">>},
          prices \in {Prices(3, Some(1), 4), Prices(1, Some(3), 4)} :
          SwitchReport(r[1], r[2], Side(r[3], "spot", "p1"),
                       Side(r[4], "spot", "p2"), prices, 0)
    \/ \E select_fails \in BOOLEAN, failing \in SUBSET Clients :
          ComputeSavings(select_fails, failing)

SpecSavings == Init /\ [][NextSavings]_vars

----------------------------------------------------------------------------
(* Every operation that writes to the store, around a ledger that fills    *)
(* and a clock that passes the retention time of the pruning job: a        *)
(* decision, a switch report, an override and its acknowledgment, the      *)
(* registration of a new agent, and both jobs.                             *)

NextAppend ==
    \/ Tick(RetentionHours + 1)
    \/ GetDecision("c1", "a1", Inst("i1", "spot", "p1"),
                   Snapshot(1000, <<Pool("p1", 960), Pool("p2", 300)>>))
    \/ SwitchReport("c1", "a1", Side("i1", "spot", "p1"),
                    Side("i3", "spot", "p2"), Prices(3, Some(3), 4), 0)
    \/ ForceInstanceSwitch("i1", "ondemand", NULL)
    \/ MarkCommandExecuted("a1", 1)
    \/ RegisterAgent("t1", "c1", "i5")
    \/ ContinueRegistration("t1")
    \/ ComputeMonthlySavingsJob
    \/ CleanupOldDataJob

SpecAppend == Init /\ [][NextAppend]_vars

----------------------------------------------------------------------------
(* Delivery: overrides for the instances of both agents keep arriving      *)
(* while each agent polls and acknowledges what it was handed. An agent    *)
(* that keeps polling and acknowledging gets every poll and every          *)
(* acknowledgment it can make served.                                      *)

NextDelivery ==
    \/ \E i \in {"i1", "i2"}, t \in {<<"ondemand", NULL>>, <<"pool", "p2">>} :
          ForceInstanceSwitch(i, t[1], t[2])
    \/ \E a \in Agents : AgentPolls(a)
    \/ \E a \in Agents, k \in (1..MaxCommands) : AgentAcknowledges(a, k)

FairDelivery ==
    \A a \in Agents :
       /\ WF_vars(AgentPolls(a))
       /\ \A k \in (1..MaxCommands) : WF_vars(AgentAcknowledges(a, k))

SpecDelivery == Init /\ [][NextDelivery]_vars /\ FairDelivery

----------------------------------------------------------------------------
(* The store: execute_query and log_system_event frame by frame, under a   *)
(* health check, while the MySQL server goes away and comes back and the   *)
(* savings job runs on the scheduler's thread.                             *)

\* A frame of execute_query, which may hold a connection, or of
\* log_system_event, which holds none.
Frame(fn, pc, conn) == [fn |-> fn, pc |-> pc, conn |-> conn]

\* The frame that is running.
Top == frames[Len(frames)]

\* The stack with its top frame replaced.
Retop(f) == [frames EXCEPT ![Len(frames)] = f]

\* A return or a raise out of the top frame.
Pop == SubSeq(frames, 1, Len(frames) - 1)

Running(fn, pcs) == frames # << >> /\ Top.fn = fn /\ Top.pc \in pcs

\* What a step of the query leaves alone.
QueryFrame == <<clock, ticks, db, model_manager, ondemand_price_snapshots, registering, client_savings_monthly, inbox>>

\* GET /health calls execute_query("SELECT 1")
HealthCheck ==
    /\ frames = << >>
    /\ req' = [op |-> "health"]
    /\ frames' = <<Frame("execute_query", "connect", FALSE)>>
    /\ resp' = Idle
    /\ UNCHANGED <<QueryFrame, held, store_up>>

\* connection = get_db_connection(): the pool raises when it is exhausted
\* or cannot reach the server
GetDbConnection ==
    /\ Running("execute_query", {"connect"})
    /\ req' = [op |-> "health"]
    /\ IF NoConnection
       THEN /\ frames' = Retop(Frame("execute_query", "except", FALSE))
            /\ UNCHANGED held
       ELSE /\ frames' = Retop(Frame("execute_query", "execute", TRUE))
            /\ held' = held + 1
    /\ resp' = Idle
    /\ UNCHANGED <<QueryFrame, store_up>>

\* cursor.execute, fetch and commit
RunQuery ==
    /\ Running("execute_query", {"execute"})
    /\ req' = [op |-> "health"]
    /\ frames' = Retop(Frame("execute_query", IF store_up THEN "return" ELSE "except", TRUE))
    /\ resp' = Idle
    /\ UNCHANGED <<QueryFrame, held, store_up>>

\* except Error: rollback, log, log_system_event('database_error', ...) and
\* raise once that call is back; a call the stack has no room for raises
\* RecursionError out of the clause
HandleError ==
    /\ Running("execute_query", {"except"})
    /\ req' = [op |-> "health"]
    /\ frames' = IF Len(frames) < StackLimit
                 THEN Append(Retop(Frame("execute_query", "raise", Top.conn)),
                             Frame("log_system_event", "insert", FALSE))
                 ELSE Retop(Frame("execute_query", "overflow", Top.conn))
    /\ resp' = Idle
    /\ UNCHANGED <<QueryFrame, held, store_up>>

\* log_system_event: execute_query(INSERT INTO system_events ...) inside
\* try / except Exception
LogSystemEvent ==
    /\ Running("log_system_event", {"insert"})
    /\ req' = [op |-> "health"]
    /\ frames' = IF Len(frames) < StackLimit
                 THEN Append(Retop(Frame("log_system_event", "return", FALSE)),
                             Frame("execute_query", "connect", FALSE))
                 ELSE Retop(Frame("log_system_event", "overflow", FALSE))
    /\ resp' = Idle
    /\ UNCHANGED <<QueryFrame, held, store_up>>

\* log_system_event returns, whether its insert returned or raised
LogSystemEventReturns ==
    /\ Running("log_system_event", {"return", "overflow"})
    /\ req' = [op |-> "health"]
    /\ frames' = Pop
    /\ resp' = Idle
    /\ UNCHANGED <<QueryFrame, held, store_up>>

\* finally: cursor.close(); connection.close()
Released(f) == IF f.conn THEN 1 ELSE 0

\* The query ends: the finally clause runs and the frame returns or raises
\* into its caller, which for the outermost query is health_check.
ExecuteQueryEnds ==
    /\ Running("execute_query", {"return", "raise", "overflow"})
    /\ req' = [op |-> "health"]
    /\ held' = held - Released(Top)
    /\ frames' = Pop
    /\ resp' = IF Len(frames) > 1 THEN Idle
               ELSE IF Top.pc = "return" THEN Ok([status |-> "healthy"])
               ELSE Err(500)
    /\ UNCHANGED <<QueryFrame, store_up>>

\* The MySQL server goes away or comes back.
StoreChanges ==
    /\ store_up' = ~store_up
    /\ UNCHANGED <<QueryFrame, held, frames, req, resp>>

NextStore ==
    \/ HealthCheck
    \/ GetDbConnection
    \/ RunQuery
    \/ HandleError
    \/ LogSystemEvent
    \/ LogSystemEventReturns
    \/ ExecuteQueryEnds
    \/ StoreChanges
    \/ \E select_fails \in BOOLEAN : ComputeSavings(select_fails, {})

SpecStore == Init /\ [][NextStore]_vars

----------------------------------------------------------------------------
(* Properties                                                              *)

\* The recorded switches without their auto-increment key.
EventContents(events) == {[f \in DOMAIN events[k] \ {"id"} |-> events[k][f]] :
                             k \in DOMAIN events}

\* The ids of the commands in a pending-commands response, in order.
ReturnedIds(r) == [k \in DOMAIN r.body.commands |-> r.body.commands[k].id]

\* The policy the decide request of req is evaluated under is in force:
\* the agent has a policy row, belongs to the caller and is enabled.
PolicyInForce ==
    /\ req.agent_id \in DOMAIN agents
    /\ req.agent_id \in DOMAIN agent_configs
    /\ agents[req.agent_id].client_id = req.client_id
    /\ agents[req.agent_id].enabled

\* The response to a decide request is a gate rejection.
IsBlockedStay(r) ==
    /\ r.status = 200
    /\ r.body.recommended_action = "stay"
    /\ r.body.allowed = FALSE
    /\ r.body.risk_score = 0

\* The number of switch events of the agent with a timestamp no older than
\* seven days.
EventsInWindow(agent_id) ==
    Cardinality({k \in DOMAIN switch_events :
                    /\ switch_events[k].agent_id = agent_id
                    /\ clock - switch_events[k].timestamp <= WeekHours})

\* The timestamps of the events that touch the instance, as origin or as
\* destination.
TouchTimes(instance_id) ==
    {switch_events[k].timestamp :
        k \in {j \in DOMAIN switch_events :
                  \/ switch_events[j].old_instance_id = instance_id
                  \/ switch_events[j].new_instance_id = instance_id}}

\* The timestamps of the events whose destination is the instance.
DestinationTimes(instance_id) ==
    {switch_events[k].timestamp :
        k \in {j \in DOMAIN switch_events :
                  switch_events[j].new_instance_id = instance_id}}

Latest(times) == CHOOSE t \in times : \A u \in times : u <= t

\* C1 (as claimed): delivering the switch report that was just applied a
\* second time leaves the recorded switch events (compared without their
\* row key), every instance row and every client's total_savings as they
\* were after the first delivery.
C1_RecordSwitchIdempotent ==
    [][(req.op = "switch_report" /\ req' = req) =>
          /\ EventContents(switch_events') = EventContents(switch_events)
          /\ instances' = instances
          /\ total_savings' = total_savings]_vars

\* C2 (as claimed): once a command's executed_at is set, no later step
\* changes executed_at or any other field of that command.
C2_ExecutedAtSetOnce ==
    [][\A k \in DOMAIN pending_switch_commands :
          pending_switch_commands[k].executed_at # None =>
             /\ k \in DOMAIN pending_switch_commands'
             /\ pending_switch_commands'[k] = pending_switch_commands[k]]_vars

\* C3: an acknowledgment whose command id matches no row of the named agent
\* (the id is unknown, or the row belongs to another agent) changes no table
\* and is answered with success.
C3_ForeignOrUnknownAckIsNoOp ==
    [][(/\ req'.op = "mark_command_executed"
        /\ ~\E k \in DOMAIN pending_switch_commands :
              /\ pending_switch_commands[k].id = req'.command_id
              /\ pending_switch_commands[k].agent_id = req'.agent_id)
       => /\ UNCHANGED <<db, clock, model_manager,
                         ondemand_price_snapshots, registering, others>>
          /\ resp' = Success]_vars

\* C3 witness: agent a2 has acknowledged a still-pending command of agent a1
\* and was answered with success.
C3_Witness ==
    /\ req.op = "mark_command_executed"
    /\ resp = Success
    /\ \E k \in DOMAIN pending_switch_commands :
          /\ pending_switch_commands[k].id = req.command_id
          /\ pending_switch_commands[k].agent_id # req.agent_id
          /\ pending_switch_commands[k].executed_at = None

\* C4 (as claimed): a pending-commands response lists exactly the agent's
\* commands with executed_at NULL, the earlier enqueued before the later
\* enqueued, also when both were enqueued at the same clock reading.
C4_ListPendingInEnqueueOrder ==
    req.op = "pending_commands" =>
       /\ Range(ReturnedIds(resp)) =
             PendingIds(pending_switch_commands, req.agent_id)
       /\ \A j, k \in DOMAIN ReturnedIds(resp) :
             j < k => ReturnedIds(resp)[j] < ReturnedIds(resp)[k]

\* C5: no step removes a command; a command that is not executed stays
\* pending for its agent across every step other than its own
\* acknowledgment by that agent; an executed command is never pending
\* again; and every poll returns exactly the agent's pending commands.
C5_NoExpiryNoCancellation ==
    [][/\ \A k \in DOMAIN pending_switch_commands :
             LET cmd == pending_switch_commands[k]
                 acked == /\ req'.op = "mark_command_executed"
                          /\ req'.command_id = cmd.id
                          /\ req'.agent_id = cmd.agent_id
             IN  /\ k \in DOMAIN pending_switch_commands'
                 /\ (cmd.executed_at = None /\ ~acked) =>
                       k \in PendingIds(pending_switch_commands', cmd.agent_id)
                 /\ cmd.executed_at # None =>
                       k \notin PendingIds(pending_switch_commands', cmd.agent_id)
       /\ req'.op = "pending_commands" =>
             Range(ReturnedIds(resp')) =
                PendingIds(pending_switch_commands', req'.agent_id)]_vars

\* C5 witness: a poll returns a command that was enqueued before the clock
\* moved, after a switch was reported and a decision was audited.
C5_Witness ==
    /\ req.op = "pending_commands"
    /\ Len(resp.body.commands) > 0
    /\ resp.body.commands[1].created_at < clock
    /\ Len(switch_events) > 0
    /\ Len(risk_scores) > 0

\* C6: a decide call leaves pending_switch_commands unchanged, and a command
\* row is added only by a successful force-switch request.
C6_DecisionsNeverEnqueue ==
    [][/\ req'.op = "decide" =>
             pending_switch_commands' = pending_switch_commands
       /\ Len(pending_switch_commands') # Len(pending_switch_commands) =>
             /\ req'.op = "force_switch"
             /\ resp' = Success
             /\ Len(pending_switch_commands')
                   = Len(pending_switch_commands) + 1]_vars

\* C6 witness: a decide call answered with an allowed fallback while the
\* command queue is empty.
C6_Witness ==
    /\ req.op = "decide"
    /\ resp.status = 200
    /\ resp.body.allowed
    /\ resp.body.recommended_action = "fallback_ondemand"
    /\ pending_switch_commands = << >>

\* C7: a decide call for an agent whose enabled flag is false is answered
\* with stay, allowed false, risk score 0, no expected savings and the mode
\* and pool the request carried.
C7_DisabledAlwaysStays ==
    (/\ req.op = "decide"
     /\ req.agent_id \in DOMAIN agents
     /\ ~agents[req.agent_id].enabled)
    => /\ IsBlockedStay(resp)
       /\ resp.body.instance_id = req.instance.instance_id
       /\ resp.body.recommended_mode = req.instance.current_mode
       /\ resp.body.recommended_pool_id = req.instance.current_pool_id
       /\ resp.body.expected_savings_per_hour = 0

\* C7 witness: a disabled agent asked to decide on a snapshot whose ratio is
\* above the absolute-high threshold, with a switch already recorded.
C7_Witness ==
    /\ req.op = "decide"
    /\ ~agents[req.agent_id].enabled
    /\ Len(req.pricing.spot_pools) > 0
    /\ req.pricing.spot_pools[1].price = 96
    /\ Len(switch_events) > 0
    /\ IsBlockedStay(resp)

\* C8: for an enabled agent with max_switches_per_week = N, a decide call
\* made when exactly N of the agent's switch events are no older than seven
\* days is answered with a gate rejection; when exactly N - 1 are, the
\* answer is not the rate gate's rejection.
C8_RateGateBoundary ==
    (req.op = "decide" /\ PolicyInForce) =>
       LET n == agent_configs[req.agent_id].max_switches_per_week
       IN  /\ EventsInWindow(req.agent_id) = n =>
                 /\ IsBlockedStay(resp)
                 /\ resp.body.reason.tag = "switch_limit_reached"
           /\ EventsInWindow(req.agent_id) = n - 1 =>
                 (resp.status = 200 =>
                     resp.body.reason.tag # "switch_limit_reached")

\* C8 witness: the agent has a limit of two, exactly two of its events lie
\* in the window, and the decide call was rejected by the rate gate.
C8_Witness ==
    /\ req.op = "decide"
    /\ PolicyInForce
    /\ agent_configs[req.agent_id].max_switches_per_week = 2
    /\ EventsInWindow(req.agent_id) = 2
    /\ Len(switch_events) = 2
    /\ resp.body.reason.tag = "switch_limit_reached"

\* The decide request of req carries a snapshot that can be evaluated: a
\* positive on-demand price and at least one pool.
UsableSnapshot ==
    /\ req.pricing.on_demand_price > 0
    /\ Len(req.pricing.spot_pools) > 0

\* C9 (as claimed): when the rate gate lets a decide call of an enabled
\* agent pass, on a usable snapshot, and the most recent switch event
\* touching the instance, as origin or destination, is elapsed hours old,
\* the call is rejected by the dwell gate if elapsed <
\* min_pool_duration_hours and is not rejected by it if elapsed >=
\* min_pool_duration_hours.
C9_DwellGateBoundary ==
    (/\ req.op = "decide"
     /\ PolicyInForce
     /\ UsableSnapshot
     /\ EventsInWindow(req.agent_id)
           < agent_configs[req.agent_id].max_switches_per_week
     /\ TouchTimes(req.instance.instance_id) # {})
    => LET elapsed == clock - Latest(TouchTimes(req.instance.instance_id))
           minimum == agent_configs[req.agent_id].min_pool_duration_hours
       IN  /\ elapsed < minimum =>
                 /\ IsBlockedStay(resp)
                 /\ resp.body.reason.tag = "too_soon_to_switch"
           /\ elapsed >= minimum =>
                 (resp.status = 200 =>
                     resp.body.reason.tag # "too_soon_to_switch")

\* The dwell boundary over the events the query of the gate selects (those
\* whose destination is the instance): it holds of the code.
DwellBoundaryOnDestinationEvents ==
    (/\ req.op = "decide"
     /\ PolicyInForce
     /\ EventsInWindow(req.agent_id)
           < agent_configs[req.agent_id].max_switches_per_week
     /\ DestinationTimes(req.instance.instance_id) # {})
    => LET elapsed == clock - Latest(DestinationTimes(req.instance.instance_id))
           minimum == agent_configs[req.agent_id].min_pool_duration_hours
       IN  /\ elapsed < minimum =>
                 /\ IsBlockedStay(resp)
                 /\ resp.body.reason.tag = "too_soon_to_switch"
           /\ elapsed >= minimum =>
                 (resp.status = 200 =>
                     resp.body.reason.tag # "too_soon_to_switch")

\* C10 (as claimed): when the rate gate lets a decide call of an enabled
\* agent pass, on a usable snapshot, and a recorded switch event has the
\* instance as its origin and is less than min_pool_duration_hours old, the
\* call is rejected by the dwell gate.
C10_DwellCountsOriginEvents ==
    (/\ req.op = "decide"
     /\ PolicyInForce
     /\ UsableSnapshot
     /\ EventsInWindow(req.agent_id)
           < agent_configs[req.agent_id].max_switches_per_week
     /\ \E k \in DOMAIN switch_events :
           /\ switch_events[k].old_instance_id = req.instance.instance_id
           /\ clock - switch_events[k].timestamp >= 0
           /\ clock - switch_events[k].timestamp
                 < agent_configs[req.agent_id].min_pool_duration_hours)
    => /\ IsBlockedStay(resp)
       /\ resp.body.reason.tag = "too_soon_to_switch"

----------------------------------------------------------------------------
(* Properties of the risk scorer *)

\* The ratio a get_risk_score request is about: price over on-demand price,
\* and 1 when the on-demand price is not positive.
RatioOf(r) ==
    IF r.ondemand_price > 0 THEN <<r.current_price[1], r.ondemand_price>>
    ELSE <<1, 1>>

RatioLess(a, b) == a[1] * b[2] < b[1] * a[2]

\* ratio > pct / 100 and ratio = pct / 100
Exceeds(ratio, pct) == ratio[1] * 100 > pct * ratio[2]
Equals(ratio, pct) == ratio[1] * 100 = pct * ratio[2]

\* ratio > p50 * (1 + spike), p50 and spike in percent
ExceedsSpikeBound(ratio, p50, spike) ==
    ratio[1] * 10000 > p50 * (100 + spike) * ratio[2]

\* The models are loaded and hold statistics for the pool.
KnownPool(pool_id) ==
    /\ model_manager.loaded
    /\ pool_id \in DOMAIN model_manager.pool_context

\* safe-to-return < normal < high-risk < event
Rank(state) ==
    CASE state = "safe-to-return" -> 0
      [] state = "normal" -> 1
      [] state = "high-risk" -> 2
      [] state = "event" -> 3

\* C14: of two consecutive scorer calls for the same pool with statistics,
\* under the same thresholds, the one with the greater ratio is never
\* answered with a lower risk state, in the order safe-to-return < normal <
\* high-risk < event.
C14_RiskStateMonotone ==
    [][(/\ req.op = "get_risk_score"
        /\ req'.op = "get_risk_score"
        /\ req'.pool_id = req.pool_id
        /\ KnownPool(req.pool_id)
        /\ RatioLess(RatioOf(req), RatioOf(req')))
       => Rank(resp.body.state) <= Rank(resp'.body.state)]_vars

\* C14 witness: the safe-return threshold lies above the absolute-high
\* threshold, the ratio lies between the two, and the call is answered
\* with event.
C14_Witness ==
    /\ req.op = "get_risk_score"
    /\ KnownPool(req.pool_id)
    /\ model_manager.config.ratio_safe_return
          > model_manager.config.ratio_absolute_high
    /\ Exceeds(RatioOf(req), model_manager.config.ratio_absolute_high)
    /\ ~Exceeds(RatioOf(req), model_manager.config.ratio_safe_return)
    /\ ~Equals(RatioOf(req), model_manager.config.ratio_safe_return)
    /\ resp.body.state = "event"

\* C15: a scorer call for a pool with statistics whose ratio exceeds the
\* absolute-high threshold and also the pool's ratio_p92 or its p50 spike
\* bound is answered with state event and score 0.9.
C15_AbsoluteHighDominates ==
    (/\ req.op = "get_risk_score"
     /\ KnownPool(req.pool_id))
    => LET context == model_manager.pool_context[req.pool_id]
           cfg == model_manager.config
           ratio == RatioOf(req)
       IN  (/\ Exceeds(ratio, cfg.ratio_absolute_high)
            /\ \/ Exceeds(ratio, context.ratio_p92)
               \/ ExceedsSpikeBound(ratio, context.ratio_p50,
                                    cfg.ratio_spike_threshold))
           => /\ resp.body.state = "event"
              /\ resp.body.risk_score = 90

\* C15 witness: a ratio above the absolute-high threshold, above ratio_p92
\* and above the spike bound, answered with event.
C15_Witness ==
    /\ req.op = "get_risk_score"
    /\ KnownPool(req.pool_id)
    /\ Exceeds(RatioOf(req), model_manager.config.ratio_absolute_high)
    /\ Exceeds(RatioOf(req),
               model_manager.pool_context[req.pool_id].ratio_p92)
    /\ ExceedsSpikeBound(RatioOf(req),
                         model_manager.pool_context[req.pool_id].ratio_p50,
                         model_manager.config.ratio_spike_threshold)
    /\ resp.body.state = "event"

\* The scenario: on-demand 1.00, spot 0.95, ratio_p50 0.5, ratio_p92 0.9,
\* absolute-high 0.95, for the pool with these statistics.
RatioAtAbsoluteHighScenario ==
    /\ req.op = "get_risk_score"
    /\ KnownPool(req.pool_id)
    /\ req.ondemand_price = 100
    /\ req.current_price = Some(95)
    /\ model_manager.pool_context[req.pool_id].ratio_p50 = 50
    /\ model_manager.pool_context[req.pool_id].ratio_p92 = 90
    /\ model_manager.config.ratio_absolute_high = 95

\* C16 (as claimed): in the scenario the scorer answers state event and
\* score 0.9.
C16_RatioAtAbsoluteHighIsEvent ==
    RatioAtAbsoluteHighScenario
    => /\ resp.body.state = "event"
       /\ resp.body.risk_score = 90

\* C16 (amended): a ratio equal to the absolute-high threshold is never
\* answered with event, and in the scenario the scorer answers state
\* high-risk and score 0.8, the ratio being above ratio_p92.
C16_RatioAtAbsoluteHighIsHighRisk ==
    /\ (/\ req.op = "get_risk_score"
        /\ KnownPool(req.pool_id)
        /\ Equals(RatioOf(req), model_manager.config.ratio_absolute_high))
       => resp.body.state # "event"
    /\ RatioAtAbsoluteHighScenario
       => /\ resp.body.state = "high-risk"
          /\ resp.body.risk_score = 80

\* C16 witness: the scenario, answered with high-risk and 0.8.
C16_Witness ==
    /\ RatioAtAbsoluteHighScenario
    /\ resp.body.state = "high-risk"
    /\ resp.body.risk_score = 80

----------------------------------------------------------------------------
(* Properties of the decision engine *)

\* No gate of the code rejects the decide request of req: the policy is in
\* force, fewer switch events of the agent than max_switches_per_week lie
\* in the window, and no event with the instance as destination is younger
\* than min_pool_duration_hours.
GatesOpen ==
    /\ PolicyInForce
    /\ EventsInWindow(req.agent_id)
          < agent_configs[req.agent_id].max_switches_per_week
    /\ \/ DestinationTimes(req.instance.instance_id) = {}
       \/ clock - Latest(DestinationTimes(req.instance.instance_id))
             >= agent_configs[req.agent_id].min_pool_duration_hours

\* The snapshot of the decide request lists at least one pool.
ListsPools == Len(req.pricing.spot_pools) > 0

\* The last row of the Decision audit table.
LastRow(rows) == rows[Len(rows)]

\* The lowest price the snapshot lists.
MinPrice(spot_pools) ==
    CHOOSE c \in {spot_pools[k].price : k \in DOMAIN spot_pools} :
       \A k \in DOMAIN spot_pools : c <= spot_pools[k].price

\* C11: a decide call that a gate rejects leaves the Decision audit table
\* risk_scores as it was.
C11_GateRejectionWritesNoRow ==
    [][(/\ req'.op = "decide"
        /\ ~GatesOpen' \/ IsBlockedStay(resp'))
       => risk_scores' = risk_scores]_vars

\* C11 witness: a decide call rejected by the dwell gate after an earlier
\* call was evaluated and audited.
C11_Witness ==
    /\ req.op = "decide"
    /\ ~GatesOpen
    /\ IsBlockedStay(resp)
    /\ resp.body.reason.tag = "too_soon_to_switch"
    /\ Len(risk_scores) = 1

\* C12 (as claimed): a decide call that passes the gates, on a snapshot
\* that lists a pool, is answered with a Decision and appends exactly one
\* row to risk_scores, and the row carries the risk score, action, mode,
\* pool, allowed flag and reason of the answer and the expected savings of
\* which the answer gives the rounding to 6 decimals.
C12_OneAuditRowPerEvaluation ==
    [][(/\ req'.op = "decide"
        /\ GatesOpen'
        /\ ListsPools')
       => /\ resp'.status = 200
          /\ Len(risk_scores') = Len(risk_scores) + 1
          /\ SubSeq(risk_scores', 1, Len(risk_scores)) = risk_scores
          /\ LET row == LastRow(risk_scores')
                 body == resp'.body
             IN  /\ row.risk_score = body.risk_score
                 /\ row.recommended_action = body.recommended_action
                 /\ row.recommended_mode = body.recommended_mode
                 /\ row.recommended_pool_id = body.recommended_pool_id
                 /\ Round6(row.expected_savings_per_hour)
                       = body.expected_savings_per_hour
                 /\ row.allowed = body.allowed
                 /\ row.reason = body.reason]_vars

\* The same with a positive on-demand price: it holds of the code.
OneAuditRowOnPositiveOnDemand ==
    [][(/\ req'.op = "decide"
        /\ GatesOpen'
        /\ ListsPools'
        /\ req'.pricing.on_demand_price > 0)
       => /\ resp'.status = 200
          /\ Len(risk_scores') = Len(risk_scores) + 1
          /\ SubSeq(risk_scores', 1, Len(risk_scores)) = risk_scores
          /\ LET row == LastRow(risk_scores')
                 body == resp'.body
             IN  /\ row.risk_score = body.risk_score
                 /\ row.recommended_action = body.recommended_action
                 /\ row.recommended_mode = body.recommended_mode
                 /\ row.recommended_pool_id = body.recommended_pool_id
                 /\ Round6(row.expected_savings_per_hour)
                       = body.expected_savings_per_hour
                 /\ row.allowed = body.allowed
                 /\ row.reason = body.reason]_vars

\* C13: in every Decision returned for a decide call, allowed is false when
\* a gate rejects the call, and a Decision that recommends switch_pool or
\* fallback_ondemand has allowed true only if the agent's
\* auto_switch_enabled is true.
C13_AllowedOnlyUnderPolicy ==
    (req.op = "decide" /\ resp.status = 200)
    => /\ ~GatesOpen => resp.body.allowed = FALSE
       /\ (/\ resp.body.recommended_action
                 \in {"switch_pool", "fallback_ondemand"}
           /\ resp.body.allowed)
          => agents[req.agent_id].auto_switch_enabled

\* C13 witness: a call rejected by a gate on a snapshot whose ratio is
\* above the absolute-high threshold, for an agent with auto-switching on,
\* after an earlier call was answered with an allowed fallback.
C13_Witness ==
    /\ req.op = "decide"
    /\ ~GatesOpen
    /\ agents[req.agent_id].auto_switch_enabled
    /\ req.pricing.spot_pools[1].price = 960
    /\ resp.body.allowed = FALSE
    /\ Len(risk_scores) = 1
    /\ risk_scores[1].recommended_action = "fallback_ondemand"
    /\ risk_scores[1].allowed

\* Neither the recorded pool of the instance nor any pool of the snapshot
\* has statistics, or no statistics are loaded.
NoStatistics ==
    \/ ~model_manager.loaded
    \/ /\ req.instance.current_pool_id \notin DOMAIN model_manager.pool_context
       /\ \A k \in DOMAIN req.pricing.spot_pools :
             req.pricing.spot_pools[k].pool_id
                \notin DOMAIN model_manager.pool_context

\* C17 (as claimed): a decide call that passes the gates, on a snapshot
\* that lists a pool, for pools without statistics is answered with a
\* Decision whose risk score is 0.5 and whose action is not
\* fallback_ondemand, at every price.
C17_AbsentStatisticsNeverEscalate ==
    (/\ req.op = "decide"
     /\ GatesOpen
     /\ ListsPools
     /\ NoStatistics)
    => /\ resp.status = 200
       /\ resp.body.risk_score = 50
       /\ resp.body.recommended_action # "fallback_ondemand"

\* The same with a positive on-demand price: it holds of the code.
AbsentStatisticsOnPositiveOnDemand ==
    (/\ req.op = "decide"
     /\ GatesOpen
     /\ ListsPools
     /\ NoStatistics
     /\ req.pricing.on_demand_price > 0)
    => /\ resp.status = 200
       /\ resp.body.risk_score = 50
       /\ resp.body.recommended_action # "fallback_ondemand"

\* C18 (as claimed): a decide call that passes the gates with an on-demand
\* price of 0, on a snapshot that lists a pool, is answered with a
\* Decision and audited with one row, in either mode; and when the
\* instance's pool is listed and has statistics, it is scored at ratio 1.0.
C18_ZeroOnDemandIsGuarded ==
    [][(/\ req'.op = "decide"
        /\ GatesOpen'
        /\ ListsPools'
        /\ req'.pricing.on_demand_price = 0)
       => /\ resp'.status = 200
          /\ Len(risk_scores') = Len(risk_scores) + 1
          /\ (/\ KnownPool(req'.instance.current_pool_id)
              /\ \E k \in DOMAIN req'.pricing.spot_pools :
                    /\ req'.pricing.spot_pools[k].pool_id
                          = req'.instance.current_pool_id
                    /\ req'.pricing.spot_pools[k].price > 0
              /\ Exceeds(<<1, 1>>, model_manager.config.ratio_absolute_high))
             => resp'.body.risk_score = 90]_vars

\* The price the snapshot lists for the recorded pool of the instance, when
\* it lists one that is positive.
ListedPrices ==
    {req.pricing.spot_pools[k].price :
        k \in {j \in DOMAIN req.pricing.spot_pools :
                  /\ req.pricing.spot_pools[j].pool_id
                        = req.instance.current_pool_id
                  /\ req.pricing.spot_pools[j].price > 0}}

\* C19: when a decide call passes the gates and is answered with a
\* Decision, then if the risk score is that of event or high-risk (0.9, 0.8
\* or 0.6) and is >= the policy's risk_threshold, the Decision is
\* fallback_ondemand, mode ondemand, pool n/a, allowed equal to
\* auto_switch_enabled, with expected savings -(on_demand - current_spot),
\* returned rounded to 6 decimals; and if the risk score is below
\* risk_threshold the Decision is not fallback_ondemand.
C19_FallbackBranch ==
    (/\ req.op = "decide"
     /\ GatesOpen
     /\ resp.status = 200)
    => LET body == resp.body
           risk_threshold == agent_configs[req.agent_id].risk_threshold
       IN  /\ (body.risk_score \in {60, 80, 90}
               /\ body.risk_score >= risk_threshold)
              => /\ body.recommended_action = "fallback_ondemand"
                 /\ body.recommended_mode = "ondemand"
                 /\ body.recommended_pool_id = "n/a"
                 /\ body.allowed = agents[req.agent_id].auto_switch_enabled
                 /\ \A current_spot \in ListedPrices :
                       body.expected_savings_per_hour
                          = Round6(0 - (req.pricing.on_demand_price
                                           - current_spot))
           /\ body.risk_score < risk_threshold
              => body.recommended_action # "fallback_ondemand"

\* C19 witness: a high-risk score of 0.8 under a risk_threshold of 0.8, with
\* auto-switching off: a fallback that is not allowed and costs 0.05 more.
C19_Witness ==
    /\ req.op = "decide"
    /\ GatesOpen
    /\ resp.status = 200
    /\ resp.body.risk_score = 80
    /\ agent_configs[req.agent_id].risk_threshold = 80
    /\ ~agents[req.agent_id].auto_switch_enabled
    /\ resp.body.recommended_action = "fallback_ondemand"
    /\ resp.body.allowed = FALSE
    /\ resp.body.expected_savings_per_hour = 0 - 50

\* C20: when a decide call passes the gates for an instance in mode
\* ondemand, with a positive on-demand price, and the risk score is that of
\* safe-to-return (0.2), then with c the lowest listed price the Decision is
\* switch_pool, mode spot, to a pool listed at c, with expected savings
\* on_demand - c, if (on_demand - c) / on_demand * 100 >=
\* min_savings_percent, and is stay on the current mode with expected
\* savings 0 otherwise.
C20_ReturnToSpotBranch ==
    (/\ req.op = "decide"
     /\ GatesOpen
     /\ resp.status = 200
     /\ req.instance.current_mode = "ondemand"
     /\ req.pricing.on_demand_price > 0
     /\ resp.body.risk_score = 20)
    => LET body == resp.body
           on_demand == req.pricing.on_demand_price
           c == MinPrice(req.pricing.spot_pools)
           minimum == agent_configs[req.agent_id].min_savings_percent
       IN  IF (on_demand - c) * 100 >= minimum * on_demand
           THEN /\ body.recommended_action = "switch_pool"
                /\ body.recommended_mode = "spot"
                /\ \E k \in DOMAIN req.pricing.spot_pools :
                      /\ req.pricing.spot_pools[k].price = c
                      /\ req.pricing.spot_pools[k].pool_id
                            = body.recommended_pool_id
                /\ body.expected_savings_per_hour = Round6(on_demand - c)
           ELSE /\ body.recommended_action = "stay"
                /\ body.recommended_mode = "ondemand"
                /\ body.expected_savings_per_hour = 0

\* C20 witness: the scenario, mode ondemand, safe-to-return, cheapest pool
\* 0.40 of on-demand 1.00, min_savings_percent 20: switch_pool with 0.60.
C20_Witness ==
    /\ req.op = "decide"
    /\ GatesOpen
    /\ req.instance.current_mode = "ondemand"
    /\ req.pricing.on_demand_price = 1000
    /\ ListsPools
    /\ MinPrice(req.pricing.spot_pools) = 400
    /\ agent_configs[req.agent_id].min_savings_percent = 20
    /\ resp.status = 200
    /\ resp.body.risk_score = 20
    /\ resp.body.recommended_action = "switch_pool"
    /\ resp.body.expected_savings_per_hour = 600

----------------------------------------------------------------------------
(* Properties of the pool hop and of the stale-pool fallback *)

\* The entries of the snapshot for the recorded pool of the instance.
RecordedEntries ==
    {k \in DOMAIN req.pricing.spot_pools :
        req.pricing.spot_pools[k].pool_id = req.instance.current_pool_id}

\* The snapshot lists the recorded pool of the instance, at a positive price.
RecordedPoolListed ==
    /\ RecordedEntries # {}
    /\ \A k \in RecordedEntries : req.pricing.spot_pools[k].price > 0

\* The price the snapshot lists first for the recorded pool.
RecordedPrice ==
    req.pricing.spot_pools[CHOOSE k \in RecordedEntries :
                              \A j \in RecordedEntries : k <= j].price

\* The cheapest pool of the snapshot, the one listed first among equals.
Cheapest ==
    LET spot_pools == req.pricing.spot_pools
        ks == {k \in DOMAIN spot_pools :
                  spot_pools[k].price = MinPrice(spot_pools)}
    IN  spot_pools[CHOOSE k \in ks : \A j \in ks : k <= j]

\* A decide call that passed the gates for an instance in mode spot whose
\* recorded pool the snapshot lists, on a positive on-demand price, and was
\* answered with the risk score of state normal (0.3 or 0.5).
PoolHopCase ==
    /\ req.op = "decide"
    /\ GatesOpen
    /\ req.instance.current_mode = "spot"
    /\ req.pricing.on_demand_price > 0
    /\ RecordedPoolListed
    /\ resp.status = 200
    /\ resp.body.risk_score \in {30, 50}

\* C21 (as claimed): in the pool-hop case the Decision is switch_pool to the
\* cheapest pool of the snapshot exactly when that pool differs from the
\* current pool and (on_demand - price) / on_demand * 100 >=
\* min_savings_percent, and is stay otherwise.
C21_PoolHopOnSavingsOverOnDemand ==
    PoolHopCase
    => LET body == resp.body
           on_demand == req.pricing.on_demand_price
           minimum == agent_configs[req.agent_id].min_savings_percent
       IN  IF /\ Cheapest.pool_id # req.instance.current_pool_id
              /\ (on_demand - Cheapest.price) * 100 >= minimum * on_demand
           THEN /\ body.recommended_action = "switch_pool"
                /\ body.recommended_mode = "spot"
                /\ body.recommended_pool_id = Cheapest.pool_id
           ELSE body.recommended_action = "stay"

\* C21 (amended): in the pool-hop case the Decision is switch_pool to the
\* cheapest pool of the snapshot exactly when that pool differs from the
\* current pool and the saving over the current spot price, as a percentage
\* of on-demand, (current_spot - price) / on_demand * 100, is >=
\* min_savings_percent, and is stay otherwise.
C21_PoolHopOnSavingsOverCurrentSpot ==
    PoolHopCase
    => LET body == resp.body
           on_demand == req.pricing.on_demand_price
           minimum == agent_configs[req.agent_id].min_savings_percent
       IN  IF /\ Cheapest.pool_id # req.instance.current_pool_id
              /\ (RecordedPrice - Cheapest.price) * 100 >= minimum * on_demand
           THEN /\ body.recommended_action = "switch_pool"
                /\ body.recommended_mode = "spot"
                /\ body.recommended_pool_id = Cheapest.pool_id
           ELSE body.recommended_action = "stay"

\* C21 witness: current pool at 0.40, cheapest pool at 0.30 of on-demand
\* 1.00, a saving of 10 percent: switch_pool under a floor of 10 percent.
C21_Witness ==
    /\ PoolHopCase
    /\ RecordedPrice = 400
    /\ Cheapest.price = 300
    /\ agent_configs[req.agent_id].min_savings_percent = 10
    /\ resp.body.recommended_action = "switch_pool"
    /\ resp.body.recommended_pool_id = Cheapest.pool_id

\* The decide response of resp is the one of an evaluation that took the
\* listed pool for the current pool of the instance: the risk score is the
\* scorer's for that pool at its price, a stay names that pool, and a
\* fallback costs on_demand - price more.
ResolvedTo(listed) ==
    LET body == resp.body
        on_demand == req.pricing.on_demand_price
        risk == GetRiskScore(model_manager, listed.pool_id,
                             Some(listed.price), on_demand)
    IN  /\ body.risk_score = risk.risk_score
        /\ body.recommended_action = "stay"
              => body.recommended_pool_id = listed.pool_id
        /\ body.recommended_action = "fallback_ondemand"
              => body.expected_savings_per_hour
                    = Round6(0 - (on_demand - listed.price))

\* C22 (as claimed): a decide call that passes the gates, on a snapshot
\* that lists a pool and a positive on-demand price, is evaluated with the
\* recorded pool of the instance at the price the snapshot lists for it
\* when the snapshot lists it, and with a cheapest listed pool at its price
\* when the snapshot does not list the recorded pool.
C22_StalePoolResolvesToCheapest ==
    (/\ req.op = "decide"
     /\ GatesOpen
     /\ ListsPools
     /\ req.pricing.on_demand_price > 0
     /\ resp.status = 200)
    => IF RecordedEntries # {}
       THEN ResolvedTo(Pool(req.instance.current_pool_id, RecordedPrice))
       ELSE \E k \in DOMAIN req.pricing.spot_pools :
               /\ req.pricing.spot_pools[k].price
                     = MinPrice(req.pricing.spot_pools)
               /\ ResolvedTo(req.pricing.spot_pools[k])

\* What the code does: a recorded pool that the snapshot does not list, or
\* lists at price 0, is replaced by the first listed pool.
StalePoolResolvesToFirstListed ==
    (/\ req.op = "decide"
     /\ GatesOpen
     /\ ListsPools
     /\ req.pricing.on_demand_price > 0
     /\ resp.status = 200)
    => IF RecordedPoolListed
       THEN ResolvedTo(Pool(req.instance.current_pool_id, RecordedPrice))
       ELSE ResolvedTo(req.pricing.spot_pools[1])

----------------------------------------------------------------------------
(* Properties of the switch ledger *)

\* The switch event recorded last.
LastEvent == switch_events[Len(switch_events)]

\* C23 (as claimed): the event recorded for a reported switch carries
\* savings_impact = old_spot - on_demand when the destination mode is
\* ondemand, and old_spot - new_spot when the destination mode is spot and
\* the report carries new_spot, whichever optional prices the report has.
C23_SavingsImpactByDestinationMode ==
    (req.op = "switch_report" /\ resp = Success)
    => /\ req.new_instance.mode = "ondemand"
             => LastEvent.savings_impact
                   = req.prices.old_spot - req.prices.on_demand
       /\ (req.new_instance.mode = "spot" /\ req.prices.new_spot # None)
             => LastEvent.savings_impact
                   = req.prices.old_spot - req.prices.new_spot[1]

\* C24: no step lowers a client's total_savings; a recorded switch report
\* whose savings_impact is > 0 raises the reporting client's total_savings
\* by exactly savings_impact * 24, one whose savings_impact is <= 0 leaves
\* it as it was, and no other client's total changes.
C24_SavingsAsymmetry ==
    [][/\ \A c \in Clients : total_savings'[c] >= total_savings[c]
       /\ (req'.op = "switch_report" /\ resp' = Success)
          => LET impact == LastEvent'.savings_impact
             IN  /\ impact > 0
                       => total_savings'[req'.client_id]
                             = total_savings[req'.client_id] + impact * 24
                 /\ impact <= 0
                       => total_savings'[req'.client_id]
                             = total_savings[req'.client_id]
                 /\ \A c \in Clients \ {req'.client_id} :
                       total_savings'[c] = total_savings[c]]_vars

\* C24 witness: a report with a negative savings_impact recorded after one
\* with a positive impact of the same client, whose total stands at 2 * 24.
C24_Witness ==
    /\ req.op = "switch_report"
    /\ Len(switch_events) = 2
    /\ switch_events[1].client_id = req.client_id
    /\ switch_events[1].savings_impact = 2
    /\ LastEvent.savings_impact < 0
    /\ total_savings[req.client_id] = 2 * 24

\* C25: after a switch report is recorded whose origin X is an instance row
\* of the reporting client and whose destination Y is another instance, X
\* still has its row and is inactive, and Y has a row and is active with
\* the mode and pool of the report, whether Y had a row before or not.
C25_OriginInactiveDestinationActive ==
    [][(/\ req'.op = "switch_report"
        /\ resp' = Success
        /\ req'.old_instance.instance_id # req'.new_instance.instance_id
        /\ req'.old_instance.instance_id \in DOMAIN instances
        /\ instances[req'.old_instance.instance_id].client_id
              = req'.client_id)
       => LET x == req'.old_instance.instance_id
              y == req'.new_instance.instance_id
          IN  /\ x \in DOMAIN instances'
              /\ ~instances'[x].is_active
              /\ y \in DOMAIN instances'
              /\ instances'[y].is_active
              /\ instances'[y].current_mode = req'.new_instance.mode
              /\ instances'[y].current_pool_id
                    = req'.new_instance.pool_id]_vars

\* C25 witness: the third report recorded moves from i4 to i3, which had a
\* row, inactive and on pool p2, and is now active on pool p1.
C25_Witness ==
    /\ req.op = "switch_report"
    /\ Len(switch_events) = 3
    /\ switch_events[1].new_instance_id = "i3"
    /\ switch_events[1].to_pool_id = "p2"
    /\ switch_events[2].old_instance_id = "i3"
    /\ req.old_instance.instance_id = "i4"
    /\ req.new_instance.instance_id = "i3"
    /\ ~instances["i4"].is_active
    /\ instances["i3"].is_active
    /\ instances["i3"].current_pool_id = "p1"

\* A recorded switch event without its auto-increment key.
Contents(e) == [f \in DOMAIN e \ {"id"} |-> e[f]]

\* C26 (as claimed): when a switch report is delivered again after later
\* reports were recorded, every instance row is after the redelivery as it
\* was before it.
C26_RedeliveryLeavesInstances ==
    [][(/\ req'.op = "switch_report"
        /\ resp' = Success
        /\ \E k \in DOMAIN switch_events :
              /\ k < Len(switch_events)
              /\ Contents(switch_events[k]) = Contents(LastEvent'))
       => instances' = instances]_vars

\* C30 (as claimed): a switch report that is answered with a failure leaves
\* switch_events, every instance row and every client's total_savings as
\* they were before the request.
C30_FailedReportCommitsNothing ==
    [][(req'.op = "switch_report" /\ resp'.status = 500)
       => /\ switch_events' = switch_events
          /\ instances' = instances
          /\ total_savings' = total_savings]_vars

----------------------------------------------------------------------------
(* Properties of registration *)

\* No thread is handling a register request.
Quiescent == \A t \in Threads : registering.calls[t] = NotRegistering

C27_BaselineWriteOnce ==
    [][\A i \in DOMAIN instances :
          instances[i].baseline_ondemand_price # None
          => /\ i \in DOMAIN instances'
             /\ instances'[i].baseline_ondemand_price
                   = instances[i].baseline_ondemand_price]_vars

\* C27 witness: i3 was registered again after a newer on-demand price was
\* reported and keeps the baseline of the older price.
C27_Witness ==
    /\ Quiescent
    /\ req.op = "register"
    /\ resp # Idle
    /\ req.instance_id = "i3"
    /\ resp.status = 200
    /\ Len(ondemand_price_snapshots) = 2
    /\ ondemand_price_snapshots[1].price = 5
    /\ ondemand_price_snapshots[2].price = 6
    /\ ondemand_price_snapshots[1].captured_at
          < ondemand_price_snapshots[2].captured_at
    /\ registering.count = 2
    /\ "i3" \in DOMAIN instances
    /\ instances["i3"].baseline_ondemand_price = Some(5)

----------------------------------------------------------------------------
(* Properties of concurrent evaluations *)

\* The allowed switches and fallbacks of the agent in the audit table.
AllowedSwitches(agent_id) ==
    {k \in DOMAIN risk_scores :
        /\ risk_scores[k].agent_id = agent_id
        /\ risk_scores[k].allowed
        /\ risk_scores[k].recommended_action # "stay"}

\* The recorded switch events of the agent.
RecordedSwitches(agent_id) ==
    {k \in DOMAIN switch_events : switch_events[k].agent_id = agent_id}

\* More switches were allowed to the agent than it has reported: at least
\* one allowed switch is not recorded yet.
SwitchOutstanding(agent_id) ==
    Cardinality(AllowedSwitches(agent_id))
       > Cardinality(RecordedSwitches(agent_id))

\* C29: a decide call that finds fewer events of the agent in the window
\* than max_switches_per_week and no event inside the dwell time passes the
\* gates and is evaluated and audited also while a switch allowed to the
\* agent before is not recorded yet: the gates do not exclude a second
\* evaluation before the first one's switch is recorded.
C29_GatesPassWhileSwitchOutstanding ==
    [][(/\ req'.op = "decide"
        /\ GatesOpen'
        /\ SwitchOutstanding(req'.agent_id))
       => /\ ~IsBlockedStay(resp')
          /\ Len(risk_scores') = Len(risk_scores) + 1]_vars

\* C29 witness: two evaluations of i1 were allowed a switch when no more
\* than N - 1 events lay in the window, both before the two switches they
\* led to were recorded, and now more than N = max_switches_per_week events
\* of the agent lie in the trailing seven days.
C29_Witness ==
    /\ req.op = "switch_report"
    /\ resp.status = 200
    /\ EventsInWindow("a1") > agent_configs["a1"].max_switches_per_week
    /\ \E j, k \in AllowedSwitches("a1") :
          /\ j # k
          /\ risk_scores[j].instance_id = "i1"
          /\ risk_scores[k].instance_id = "i1"
          /\ Cardinality({e \in RecordedSwitches("a1") :
                             /\ switch_events[e].timestamp
                                   > risk_scores[j].created_at
                             /\ switch_events[e].timestamp
                                   > risk_scores[k].created_at}) = 2
          /\ Cardinality({e \in RecordedSwitches("a1") :
                             \/ switch_events[e].timestamp
                                   <= risk_scores[j].created_at
                             \/ switch_events[e].timestamp
                                   <= risk_scores[k].created_at})
                = agent_configs["a1"].max_switches_per_week - 1

----------------------------------------------------------------------------
(* Properties of manual overrides *)

\* The override request asks for a target that is not one of the two modes,
\* or for a pool without a pool id or with an id that names no pool, or
\* names an instance that has no row.
InvalidOverride(r) ==
    \/ r.target \notin {"ondemand", "pool"}
    \/ r.target = "pool" /\ r.pool_id \notin Pools
    \/ r.instance_id \notin DOMAIN instances

\* C31 (as claimed): an override request with an invalid target, with a
\* pool target whose pool id is missing or names no known pool, or for an
\* unknown instance is rejected and leaves pending_switch_commands as it
\* was.
C31_InvalidOverrideRejected ==
    [][(req'.op = "force_switch" /\ InvalidOverride(req'))
       => /\ resp'.status # 200
          /\ pending_switch_commands' = pending_switch_commands]_vars

\* The rows of pending_switch_commands that no acknowledgment has marked,
\* without their auto-increment key and creation time.
PendingDirectives ==
    {[agent_id |-> pending_switch_commands[k].agent_id,
      instance_id |-> pending_switch_commands[k].instance_id,
      target_mode |-> pending_switch_commands[k].target_mode,
      target_pool_id |-> pending_switch_commands[k].target_pool_id,
      row |-> k] :
        k \in {j \in DOMAIN pending_switch_commands :
                  pending_switch_commands[j].executed_at = None}}

\* C32 (as claimed): delivering the override request that was just queued
\* a second time leaves the pending rows as they were after the first
\* delivery, so that a poll hands the directive to the agent once.
C32_OverrideIdempotent ==
    [][(/\ req.op = "force_switch"
        /\ resp.status = 200
        /\ req' = req)
       => PendingDirectives' = PendingDirectives]_vars

----------------------------------------------------------------------------
(* Properties of the maintenance jobs *)

\* The savings_impact of the client's recorded switches, added up.
Total(client_id) == SavingsOfPeriod(switch_events, client_id, Len(switch_events))

\* C33: after a run of the savings job that got its connection and its
\* list of clients, every client for which the procedure did not raise has
\* the aggregate of its recorded switches committed, whichever clients the
\* procedure raised for.
C33_PerClientFailureIsolated ==
    (/\ req.op = "compute_monthly_savings_job"
     /\ req.connected
     /\ ~req.select_fails)
    => \A c \in Clients \ req.failing :
          client_savings_monthly[c] = Some(Total(c))

\* C33 witness: the procedure raised for c1, whose row is still missing,
\* and c2 has the aggregate of its two switches.
C33_Witness ==
    /\ req.op = "compute_monthly_savings_job"
    /\ req.connected
    /\ ~req.select_fails
    /\ req.failing = {"c1"}
    /\ client_savings_monthly["c1"] = None
    /\ Cardinality({k \in DOMAIN switch_events :
                       switch_events[k].client_id = "c2"}) = 2
    /\ client_savings_monthly["c2"] = Some(Total("c2"))
    /\ Total("c2") # 0

\* C34: no step removes a row of switch_events or changes one: every row
\* recorded before the step is there after it, with every column as it was.
C34_SwitchEventsAppendOnly ==
    [][/\ Len(switch_events') >= Len(switch_events)
       /\ \A k \in DOMAIN switch_events :
             switch_events'[k] = switch_events[k]]_vars

\* C34 witness: the pruning job ran over a ledger whose first event is
\* older than the 90 days of the job, after a second report, a decision, an
\* acknowledged override, a registration and a savings run.
C34_Witness ==
    /\ req.op = "cleanup_old_data_job"
    /\ Len(switch_events) = 2
    /\ switch_events[1].timestamp < clock - RetentionHours
    /\ Len(risk_scores) = 1
    /\ client_savings_monthly["c1"] # None
    /\ "a3" \in DOMAIN agent_configs
    /\ Len(pending_switch_commands) > 0
    /\ pending_switch_commands[1].executed_at # None

----------------------------------------------------------------------------
(* Properties of delivery *)

\* Command k is in the queue.
Enqueued(k) == k \in DOMAIN pending_switch_commands

\* Command k is in the hands of the agent it was queued for.
Returned(k) ==
    /\ Enqueued(k)
    /\ k \in inbox[pending_switch_commands[k].agent_id]

\* Command k has its executed_at set.
Executed(k) ==
    /\ Enqueued(k)
    /\ pending_switch_commands[k].executed_at # None

\* C35: while the agents keep polling and acknowledging, every command an
\* override queued is eventually handed to its agent by a poll and
\* eventually has executed_at set, whatever overrides are queued meanwhile.
\* A command is queued with executed_at unset, and only its agent, with the
\* command in hand, acknowledges it.
C35_GuaranteedDelivery ==
    \A k \in (1..MaxCommands) :
       /\ (Enqueued(k) /\ ~Executed(k)) ~> Returned(k)
       /\ Enqueued(k) ~> Executed(k)

\* C35 witness: a command of a2 was queued while a command of a1 was
\* waiting, and both were handed out and acknowledged.
C35_Witness ==
    /\ Len(pending_switch_commands) = 2
    /\ pending_switch_commands[1].agent_id = "a1"
    /\ pending_switch_commands[2].agent_id = "a2"
    /\ Executed(1)
    /\ Executed(2)
    /\ inbox = [a \in Agents |-> {}]
    /\ req.op = "mark_command_executed"

----------------------------------------------------------------------------
(* Properties of tenant isolation *)

\* What a switch report may set on an instance row.
Placement(row) == <<row.is_active, row.current_mode, row.current_pool_id>>

\* C36: a switch report submitted under one client leaves is_active, mode
\* and pool of every instance row of another client as they were, also when
\* the report names that row as its origin or its destination.
C36_ReportLeavesOtherTenantsRows ==
    [][req'.op = "switch_report" =>
          \A i \in DOMAIN instances :
             instances[i].client_id # req'.client_id =>
                /\ i \in DOMAIN instances'
                /\ Placement(instances'[i]) = Placement(instances[i])]_vars

----------------------------------------------------------------------------
(* Properties of the store *)

\* C37: the error path of a failing query comes to an end by itself: the
\* nesting of execute_query in log_system_event in execute_query is never
\* what uses up the interpreter's stack, however long the store stays
\* unavailable.
C37_ErrorPathEndsByItself ==
    \A k \in DOMAIN frames : frames[k].pc # "overflow"

\* C38: once no query is running and the savings job has ended, no
\* connection of the pool is held.
C38_NoConnectionLeaked == frames = << >> => held = 0

====
